---- MODULE Spec2Model ----
(***************************************************************************)
(* Model of the pycanandmessage runtime codec (model.py, device.py).       *)
(*                                                                         *)
(* Python integers are unbounded.  A non-negative Python int is modelled   *)
(* by the set of its one-bit positions (bit 0 = least significant), so     *)
(* that 64-bit payloads, 32/64-bit float patterns and byte buffers are     *)
(* represented exactly.  Small integers (signal values, bounds, ids) are   *)
(* ordinary integers and are converted with BitsOf / ValOf.                *)
(***************************************************************************)
EXTENDS Integers, Sequences, FiniteSets, TLC

\* ------------------------------------------------------------------------
\* Bounds of the model
\* ------------------------------------------------------------------------
\* Largest device id drawn for to_wrapper / CANDevice (ids above 63 do not
\* fit the 6-bit device field).
MaxDevId == 65
\* Largest api index drawn for CANDevice.addr (indexes above 255 need the
\* upper two bits of the 10-bit api field).
MaxApiIndex == 257
\* Longest byte sequence drawn as a Buffer value.
MaxBufLen == 7

\* ------------------------------------------------------------------------
\* Python int  <->  bit set
\* ------------------------------------------------------------------------
\* bits of a small non-negative integer
BitsOf(n) == {i \in 0..30 : (n \div (2^i)) % 2 = 1}

RECURSIVE ValOf(_)
\* value of a bit set (all positions below 31)
ValOf(s) == IF s = {} THEN 0
            ELSE LET i == CHOOSE x \in s : TRUE IN (2^i) + ValOf(s \ {i})

\* a << n
Shl(a, n) == {i + n : i \in a}
\* a >> n
Shr(a, n) == {i - n : i \in {j \in a : j >= n}}
\* a & b, a | b
BitAnd(a, b) == a \cap b
BitOr(a, b) == a \cup b
\* highest set bit of a non-empty bit set
TopBit(a) == CHOOSE i \in a : \A j \in a : j <= i
\* a < b for non-negative ints given as bit sets
BitsLess(a, b) == a # b /\ TopBit((a \ b) \cup (b \ a)) \in b

\* pycanandmessage.utils.mask(width) == (1 << width) - 1
mask(width) == 0..(width - 1)

\* utils.unwrap_or(v, d) on an optional [some, v]
None == [some |-> FALSE, v |-> 0]
Some(x) == [some |-> TRUE, v |-> x]
unwrap_or(o, d) == IF o.some THEN o.v ELSE d

default_uint_max(width) == (2^width) - 1
default_sint_min(width) == -(2^(width - 1))
\* faulty variant: the implicit maximum of a signed signal taken one too high
default_sint_max_high(width) == 2^(width - 1)
default_sint_max(width) == (2^(width - 1)) - 1

\* ------------------------------------------------------------------------
\* bytes
\* ------------------------------------------------------------------------
\* int.from_bytes(b, 'little')
from_bytes(b) == UNION {Shl(BitsOf(b[k]), 8 * (k - 1)) : k \in 1..Len(b)}
\* int.to_bytes(n, 'little') raises OverflowError when the int needs more bytes
fits_bytes(a, n) == \A i \in a : i < 8 * n
to_bytes(a, n) == [k \in 1..n |-> ValOf(Shr(BitAnd(a, (8 * (k - 1))..(8 * k - 1)), 8 * (k - 1)))]

\* ------------------------------------------------------------------------
\* Python values
\* ------------------------------------------------------------------------
PyNone == [t |-> "None"]
\* int, bool and IntEnum / Flag members (True == 1 in Python)
PyInt(n) == [t |-> "int", i |-> n]
\* bytes / bytearray
PyBytes(s) == [t |-> "bytes", s |-> s]
\* float: the binary64 pattern of the value, as a bit set
PyFloat(d) == [t |-> "float", d |-> d]
\* dataclass instance of a struct type: field name -> value
PyObj(f) == [t |-> "obj", f |-> f]

\* binary64 fields
DSign(d) == 63 \in d
DExp(d) == ValOf(Shr(BitAnd(d, 52..62), 52))
DMant(d) == BitAnd(d, 0..51)
DIsNaN(d) == DExp(d) = 2047 /\ DMant(d) # {}
\* math.isfinite
isfinite(d) == DExp(d) # 2047
DIsZero(d) == BitAnd(d, 0..62) = {}
\* a < b on floats (false when either is NaN; -0.0 == 0.0)
FloatLess(a, b) ==
    /\ ~DIsNaN(a) /\ ~DIsNaN(b)
    /\ ~(DIsZero(a) /\ DIsZero(b))
    /\ IF DSign(a) # DSign(b) THEN DSign(a)
       ELSE IF DSign(a) THEN BitsLess(BitAnd(b, 0..62), BitAnd(a, 0..62))
       ELSE BitsLess(BitAnd(a, 0..62), BitAnd(b, 0..62))
\* a == b on floats
FloatEq(a, b) == ~DIsNaN(a) /\ ~DIsNaN(b) /\ (a = b \/ (DIsZero(a) /\ DIsZero(b)))

\* struct.unpack("<f", ...): widen a binary32 pattern to the float it denotes
unpack_f(p) ==
    LET sign == IF 31 \in p THEN {63} ELSE {}
        e8   == ValOf(Shr(BitAnd(p, 23..30), 23))
        m23  == BitAnd(p, 0..22)
    IN  IF e8 = 255 THEN sign \cup (52..62) \cup Shl(m23, 29)
        ELSE IF e8 = 0 /\ m23 = {} THEN sign
        ELSE IF e8 = 0
             THEN \* subnormal binary32: normalise
                  LET k == TopBit(m23)
                  IN  sign \cup Shl(BitsOf(874 + k), 52) \cup Shl(m23 \ {k}, 52 - k)
        ELSE sign \cup Shl(BitsOf(e8 + 896), 52) \cup Shl(m23, 29)

\* struct.pack("<f", v): round a float to binary32 (nearest, ties to even).
\* err = "OverflowError" when a finite value rounds beyond the binary32 range.
\* Values below the binary32 normal range are flushed to zero (none is drawn).
pack_f(d) ==
    LET sign == IF DSign(d) THEN {31} ELSE {}
        e11  == DExp(d)
        m    == DMant(d)
        hi   == Shr(m, 29)
        lo   == BitAnd(m, 0..28)
        up   == 28 \in lo /\ (lo # {28} \/ 0 \in hi)
        mag  == (e11 - 896) * (2^23) + ValOf(hi) + (IF up THEN 1 ELSE 0)
    IN  IF e11 = 2047
        THEN [err |-> "none", bits |-> sign \cup (23..30) \cup hi \cup (IF m # {} THEN {22} ELSE {})]
        ELSE IF e11 <= 896 THEN [err |-> "none", bits |-> sign]
        ELSE IF e11 > 1150 \/ mag >= 255 * (2^23)
             THEN [err |-> "OverflowError", bits |-> {}]
        ELSE [err |-> "none", bits |-> sign \cup BitsOf(mag)]

\* ------------------------------------------------------------------------
\* Signal metadata (model.py: UInt, SInt, Float, Buffer, Boolean, Bitset,
\* Enum, Struct) and Signal
\* ------------------------------------------------------------------------
Meta(kind, width, min, max, allow_nan_inf, dtype) ==
    [kind |-> kind, width |-> width, min |-> min, max |-> max,
     allow_nan_inf |-> allow_nan_inf, dtype |-> dtype]
UInt(width, min, max) == Meta("UInt", width, min, max, FALSE, <<>>)
SInt(width, min, max) == Meta("SInt", width, min, max, FALSE, <<>>)
Float(width, min, max, allow_nan_inf) == Meta("Float", width, min, max, allow_nan_inf, <<>>)
Buffer(width) == Meta("Buffer", width, None, None, FALSE, <<>>)
Boolean == Meta("Boolean", 1, None, None, FALSE, <<>>)
Bitset(width) == Meta("Bitset", width, None, None, FALSE, <<>>)
Enum(width) == Meta("Enum", width, None, None, FALSE, <<>>)
\* dtype: the annotated fields of the dataclass, in declaration order
Struct(dtype) == Meta("Struct", 0, None, None, FALSE, dtype)

Signal(offset, meta, optional) == [offset |-> offset, meta |-> meta, optional |-> optional]
Field(name, sig) == [name |-> name, sig |-> sig]

\* result of a call that returns an int or raises
Ok(bits) == [err |-> "none", bits |-> bits]
Raise(e) == [err |-> e, bits |-> {}]
\* result of a call that returns a value or raises
Ret(val) == [err |-> "none", val |-> val]
RaiseV(e) == [err |-> e, val |-> PyNone]
Pending == [err |-> "pending", bits |-> {}]
PendingV == [err |-> "pending", val |-> PyNone]

\* value & utils.mask(width) for a Python int value (two's complement for
\* negative values)
IntAndMask(value, width) == BitsOf(value % (2^width))

\* Signal.encode, case UInt(): ivalue
encode_UInt(meta, value) ==
    IF value.t # "int" THEN Raise("TypeError")
    ELSE LET min_bound == unwrap_or(meta.min, 0)
             max_bound == unwrap_or(meta.max, default_uint_max(meta.width))
         IN  IF ~(min_bound <= value.i /\ value.i <= max_bound)
             THEN Raise("ValueError")
             ELSE Ok(IntAndMask(value.i, meta.width))

\* Signal.encode, case SInt(): ivalue
encode_SInt(meta, value) ==
    IF value.t # "int" THEN Raise("TypeError")
    ELSE LET min_bound == unwrap_or(meta.min, default_sint_min(meta.width))
             max_bound == unwrap_or(meta.max, default_sint_max(meta.width))
         IN  IF ~(min_bound <= value.i /\ value.i <= max_bound)
             THEN Raise("ValueError")
             ELSE Ok(IntAndMask(value.i, meta.width))

\* Signal.encode, case Boolean(): ivalue = bool(value); None and 0 are falsy
encode_Boolean(meta, value) ==
    IF value.t = "None" \/ (value.t = "int" /\ value.i = 0) THEN Ok({}) ELSE Ok({0})

\* Signal.encode, case Float(): ivalue
encode_Float(meta, value) ==
    IF value.t # "float" THEN Raise("TypeError")
    ELSE IF ~(meta.allow_nan_inf \/ isfinite(value.d)) THEN Raise("ValueError")
    ELSE IF meta.min.some /\ FloatLess(value.d, meta.min.v) THEN Raise("ValueError")
    \* "meta.max is not None and value > meta.min": comparing with a None
    \* minimum raises TypeError
    ELSE IF meta.max.some /\ ~meta.min.some THEN Raise("TypeError")
    ELSE IF meta.max.some /\ FloatLess(meta.min.v, value.d) THEN Raise("ValueError")
    ELSE CASE meta.width = 24 ->
                LET p == pack_f(value.d)
                IN  IF p.err # "none" THEN p ELSE Ok(Shr(p.bits, 8))
           [] meta.width = 32 -> pack_f(value.d)
           [] meta.width = 64 -> Ok(value.d)
           [] OTHER -> Raise("ValueError")

\* faulty variant: capacity computed as ceil((width + 1) / 8)
encode_Buffer_wide(meta, value) ==
    IF value.t # "bytes" THEN Raise("TypeError")
    ELSE LET max_len == (meta.width + 8) \div 8
         IN  IF Len(value.s) > max_len THEN Raise("ValueError")
             ELSE Ok(from_bytes(value.s))

\* Signal.encode, case Buffer(): ivalue
encode_Buffer(meta, value) ==
    IF value.t # "bytes" THEN Raise("TypeError")
    ELSE LET max_len == (meta.width + 7) \div 8
         IN  IF Len(value.s) > max_len THEN Raise("ValueError")
             ELSE Ok(from_bytes(value.s))

\* Signal.encode, case Bitset(): ivalue = value (non-negative ints are
\* drawn; shifting None raises TypeError)
encode_Bitset(meta, value) ==
    IF value.t # "int" THEN Raise("TypeError") ELSE Ok(BitsOf(value.i))

\* Signal.encode, case Enum(): ivalue = value
encode_Enum(meta, value) ==
    IF value.t # "int" THEN Raise("TypeError") ELSE Ok(BitsOf(value.i))

RECURSIVE Signal_encode(_, _)
\* Signal.encode(name, value): the signal's contribution to the payload
Signal_encode(self, value) ==
    IF self.optional /\ value.t = "None" THEN Ok({})
    ELSE
    LET meta == self.meta
        ivalue ==
          CASE meta.kind = "UInt" -> encode_UInt(meta, value)
            [] meta.kind = "SInt" -> encode_SInt(meta, value)
            [] meta.kind = "Boolean" -> encode_Boolean(meta, value)
            [] meta.kind = "Float" -> encode_Float(meta, value)
            [] meta.kind = "Buffer" -> encode_Buffer(meta, value)
            [] meta.kind = "Bitset" -> encode_Bitset(meta, value)
            [] meta.kind = "Enum" -> encode_Enum(meta, value)
            [] meta.kind = "Struct" ->
                 IF value.t # "obj" THEN Raise("AttributeError")
                 ELSE LET n    == Len(meta.dtype)
                          sub(k) == Signal_encode(meta.dtype[k].sig, value.f[meta.dtype[k].name])
                          bad  == {k \in 1..n : sub(k).err # "none"}
                      IN  IF bad # {}
                          THEN sub(CHOOSE k \in bad : \A j \in bad : k <= j)
                          ELSE Ok(UNION {sub(k).bits : k \in 1..n})
    IN  IF ivalue.err # "none" THEN ivalue ELSE Ok(Shl(ivalue.bits, self.offset))

\* faulty variant: the field masked one bit too narrow
decode_UInt_narrow(meta, data) == Ret(PyInt(ValOf(BitAnd(data, mask(meta.width - 1)))))

\* Signal.decode, case UInt()
decode_UInt(meta, data) == Ret(PyInt(ValOf(BitAnd(data, mask(meta.width)))))

\* faulty variant: the most negative value is not sign-extended
decode_SInt_strict(meta, data) ==
    LET value == BitAnd(data, mask(meta.width))
    IN  Ret(PyInt(IF (meta.width - 1) \in value /\ value # {meta.width - 1}
                  THEN -ValOf(mask(meta.width) \ value) - 1 ELSE ValOf(value)))

\* Signal.decode, case SInt(): sign extension from bit width-1
\* (value >= 1 << (width - 1) exactly when bit width-1 of the masked value is
\* set, and value - (1 << width) is then -(mask(width) - value) - 1)
decode_SInt(meta, data) ==
    LET value == BitAnd(data, mask(meta.width))
    IN  Ret(PyInt(IF (meta.width - 1) \in value
                  THEN -ValOf(mask(meta.width) \ value) - 1 ELSE ValOf(value)))

\* Signal.decode, case Boolean()
decode_Boolean(meta, data) == Ret(PyInt(IF 0 \in data THEN 1 ELSE 0))

\* Signal.decode, case Float(): the 24-bit field is shifted left by 8 and
\* then by 8 again before to_bytes(4), which raises OverflowError when the
\* shifted value needs more than 32 bits
decode_Float(meta, data) ==
    LET d == BitAnd(data, mask(meta.width))
    IN  CASE meta.width = 24 ->
               LET d24 == Shl(BitAnd(d, mask(24)), 8)
               IN  IF ~fits_bytes(Shl(d24, 8), 4) THEN RaiseV("OverflowError")
                   ELSE Ret(PyFloat(unpack_f(Shl(d24, 8))))
          [] meta.width = 32 -> Ret(PyFloat(unpack_f(d)))
          [] meta.width = 64 -> Ret(PyFloat(d))
          [] OTHER -> RaiseV("ValueError")

\* Signal.decode, case Buffer()
decode_Buffer(meta, data) ==
    Ret(PyBytes(to_bytes(BitAnd(data, mask(meta.width)), (meta.width + 7) \div 8)))

\* Signal.decode, case Bitset()
decode_Bitset(meta, data) == Ret(PyInt(ValOf(BitAnd(data, mask(meta.width)))))

\* Signal.decode, case Enum()
decode_Enum(meta, data) == Ret(PyInt(ValOf(BitAnd(data, mask(meta.width)))))

\* "if self.offset > max_idx: return None"
past_payload(offset, max_idx) == offset > max_idx

\* faulty variant: the sub-signals are handed the limit of the whole payload
sub_max_idx_whole(self, max_idx) == max_idx
\* max_idx -= self.offset: the limit handed to the sub-signals of a Struct
sub_max_idx(self, max_idx) == max_idx - self.offset

RECURSIVE Signal_decode(_, _, _)
\* Signal.decode(data, max_idx)
Signal_decode(self, data0, max_idx) ==
    IF past_payload(self.offset, max_idx) THEN Ret(PyNone)
    ELSE
    LET data == Shr(data0, self.offset)
        meta == self.meta
    IN  CASE meta.kind = "UInt" -> decode_UInt(meta, data)
          [] meta.kind = "SInt" -> decode_SInt(meta, data)
          [] meta.kind = "Boolean" -> decode_Boolean(meta, data)
          [] meta.kind = "Float" -> decode_Float(meta, data)
          [] meta.kind = "Buffer" -> decode_Buffer(meta, data)
          [] meta.kind = "Bitset" -> decode_Bitset(meta, data)
          [] meta.kind = "Enum" -> decode_Enum(meta, data)
          [] meta.kind = "Struct" ->
               LET n    == Len(meta.dtype)
                   sub(k) == Signal_decode(meta.dtype[k].sig, data, sub_max_idx(self, max_idx))
                   bad  == {k \in 1..n : sub(k).err # "none"}
                   names == {meta.dtype[k].name : k \in 1..n}
                   idx(nm) == CHOOSE k \in 1..n : meta.dtype[k].name = nm
               IN  IF bad # {}
                   THEN sub(CHOOSE k \in bad : \A j \in bad : k <= j)
                   ELSE Ret(PyObj([nm \in names |-> sub(idx(nm)).val]))

\* ------------------------------------------------------------------------
\* Python equality of decoded / constructed values
\* ------------------------------------------------------------------------
RECURSIVE PyEq(_, _)
\* a == b (dataclass __eq__ compares field by field; nan != nan)
PyEq(a, b) ==
    IF a.t # b.t THEN FALSE
    ELSE CASE a.t = "None" -> TRUE
           [] a.t = "int" -> a.i = b.i
           [] a.t = "bytes" -> a.s = b.s
           [] a.t = "float" -> FloatEq(a.d, b.d)
           [] a.t = "obj" -> /\ DOMAIN a.f = DOMAIN b.f
                             /\ \A n \in DOMAIN a.f : PyEq(a.f[n], b.f[n])

\* ------------------------------------------------------------------------
\* Message classes of the repository (MessageMeta + annotated signals)
\* ------------------------------------------------------------------------
MessageMeta(device_type, id, min_length, max_length) ==
    [device_type |-> device_type, id |-> id, min_length |-> min_length, max_length |-> max_length]
MessageClass(name, meta, hints) == [name |-> name, meta |-> meta, hints |-> hints]

\* cananddevice.types.SettingFlags / model.TestSettingFlags
SettingFlags == <<Field("ephemeral", Signal(0, Boolean, FALSE)),
                  Field("synch_hold", Signal(1, Boolean, FALSE)),
                  Field("synch_msg_count", Signal(4, UInt(4, Some(0), Some(15)), FALSE))>>
TestSettingFlags == <<Field("ephemeral", Signal(0, Boolean, FALSE)),
                      Field("synch_hold", Signal(1, Boolean, FALSE)),
                      Field("synch_msg_count", Signal(4, UInt(4, None, None), FALSE))>>
\* canandgyro.types.Yaw
Yaw == <<Field("yaw", Signal(0, Float(32, None, None, TRUE), FALSE)),
         Field("wraparound", Signal(32, SInt(16, Some(-32768), Some(32767)), FALSE))>>

SettingCommand ==
    MessageClass("SettingCommand", MessageMeta(7, 2, 1, 8),
        <<Field("control_flag", Signal(0, Enum(8), FALSE)),
          Field("setting_index", Signal(8, Enum(8), TRUE))>>)
SetSetting ==
    MessageClass("SetSetting", MessageMeta(7, 3, 8, 8),
        <<Field("address", Signal(0, Enum(8), FALSE)),
          Field("value", Signal(8, Buffer(48), FALSE)),
          Field("flags", Signal(56, Struct(SettingFlags), FALSE))>>)
Status ==
    MessageClass("Status", MessageMeta(7, 6, 8, 8),
        <<Field("faults", Signal(0, Bitset(8), FALSE)),
          Field("sticky_faults", Signal(8, Bitset(8), FALSE)),
          Field("temperature", Signal(16, SInt(8, Some(-128), Some(127)), FALSE))>>)
Enumerate ==
    MessageClass("Enumerate", MessageMeta(7, 11, 8, 8),
        <<Field("serial", Signal(0, Buffer(48), FALSE)),
          Field("is_bootloader", Signal(48, Boolean, FALSE))>>)
VelocityOutput ==
    MessageClass("VelocityOutput", MessageMeta(7, 30, 3, 3),
        <<Field("velocity", Signal(0, SInt(22, Some(-2097152), Some(2097151)), FALSE)),
          Field("magnet_status", Signal(22, UInt(2, Some(0), Some(3)), FALSE))>>)
YawOutput ==
    MessageClass("YawOutput", MessageMeta(4, 31, 6, 6),
        <<Field("yaw", Signal(0, Struct(Yaw), FALSE))>>)
TestSetSetting ==
    MessageClass("TestSetSetting", MessageMeta(4, 3, 7, 8),
        <<Field("address", Signal(0, UInt(8, Some(0), Some(255)), FALSE)),
          Field("data", Signal(8, Buffer(48), FALSE)),
          Field("flags", Signal(56, Struct(TestSettingFlags), TRUE))>>)

\* ------------------------------------------------------------------------
\* BaseMessage
\* ------------------------------------------------------------------------
\* MessageWrapper(data, dlc, arb_id), or the exception raised instead
MessageWrapper(data, dlc, arb_id) == [err |-> "none", data |-> data, dlc |-> dlc, arb_id |-> arb_id]
RaiseW(e) == [err |-> e, data |-> {}, dlc |-> 0, arb_id |-> 0]
PendingW == [err |-> "pending", data |-> {}, dlc |-> 0, arb_id |-> 0]

\* faulty variant: the message id shifted by 5, into the device-id field
arb_id_of_packed(device_type, id, dev_id) ==
    ValOf(BitOr(BitOr(Shl(BitsOf(device_type), 24), Shl(BitsOf(14), 16)),
                BitOr(Shl(BitsOf(id), 5), BitsOf(dev_id))))
\* (device_type << 24) | (0xe << 16) | (id << 6) | dev_id
arb_id_of(device_type, id, dev_id) ==
    ValOf(BitOr(BitOr(Shl(BitsOf(device_type), 24), Shl(BitsOf(14), 16)),
                BitOr(Shl(BitsOf(id), 6), BitsOf(dev_id))))

\* faulty variant: only the last signal decides the dlc
dlc_of_last(self) ==
    LET n == Len(self.cls.hints)
    IN  IF n > 0 /\ self.cls.hints[n].sig.optional /\ self.f[self.cls.hints[n].name].t # "None"
        THEN self.cls.meta.max_length ELSE self.cls.meta.min_length

\* the dlc to_wrapper settles on: min_length, raised to max_length by any
\* optional signal that carries a value
dlc_of(self) ==
    IF \E k \in 1..Len(self.cls.hints) :
           self.cls.hints[k].sig.optional /\ self.f[self.cls.hints[k].name].t # "None"
    THEN self.cls.meta.max_length ELSE self.cls.meta.min_length

\* BaseMessage.to_wrapper(self, dev_id, device_type=None)
\* self = [cls |-> message class, f |-> field name -> value]
to_wrapper(self, dev_id, device_type) ==
    LET meta  == self.cls.meta
        hints == self.cls.hints
        n     == Len(hints)
        dt    == IF device_type.some THEN device_type.v ELSE meta.device_type
        \* optional signals whose value is None are skipped
        used  == {k \in 1..n : ~(hints[k].sig.optional /\ self.f[hints[k].name].t = "None")}
        enc(k) == Signal_encode(hints[k].sig, self.f[hints[k].name])
        bad   == {k \in used : enc(k).err # "none"}
        dlc   == dlc_of(self)
    IN  IF bad # {}
        THEN RaiseW(enc(CHOOSE k \in bad : \A j \in bad : k <= j).err)
        ELSE MessageWrapper(UNION {enc(k).bits : k \in used}, dlc, arb_id_of(dt, meta.id, dev_id))

\* BaseMessage.from_wrapper(cls, msg): the decoded instance, or the exception
from_wrapper(cls, msg) ==
    LET data    == msg.data
        max_idx == msg.dlc * 8
        n       == Len(cls.hints)
        dec(k)  == Signal_decode(cls.hints[k].sig, data, max_idx)
        bad     == {k \in 1..n : dec(k).err # "none"}
        names   == {cls.hints[k].name : k \in 1..n}
        idx(nm) == CHOOSE k \in 1..n : cls.hints[k].name = nm
    IN  IF bad # {}
        THEN [err |-> dec(CHOOSE k \in bad : \A j \in bad : k <= j).err, cls |-> cls.name, val |-> PyNone]
        ELSE [err |-> "none", cls |-> cls.name, val |-> PyObj([nm \in names |-> dec(idx(nm)).val])]
PendingM == [err |-> "pending", cls |-> "", val |-> PyNone]

\* ------------------------------------------------------------------------
\* CANDevice (device.py)
\* ------------------------------------------------------------------------
REDUX_CAN_VENDOR_ID == 14

\* CANDevice.addr(api_index)
addr(self, api_index) ==
    ValOf(BitOr(BitOr(Shl(BitAnd(BitsOf(self.device_type), BitsOf(31)), 24),
                      Shl(BitAnd(BitsOf(REDUX_CAN_VENDOR_ID), BitsOf(255)), 16)),
                BitOr(Shl(BitAnd(BitsOf(api_index), BitsOf(255)), 6),
                      BitAnd(BitsOf(self.dev_id), BitsOf(63)))))

\* ------------------------------------------------------------------------
\* BaseDevice (model.py) and the Canandmag device (canandmag/__init__.py)
\* ------------------------------------------------------------------------
CanIdArbitrate ==
    MessageClass("CanIdArbitrate", MessageMeta(7, 0, 8, 8),
        <<Field("addr_value", Signal(0, Buffer(64), FALSE))>>)
CanIdError ==
    MessageClass("CanIdError", MessageMeta(7, 1, 8, 8),
        <<Field("addr_value", Signal(0, Buffer(64), FALSE))>>)
ReportSetting ==
    MessageClass("ReportSetting", MessageMeta(7, 4, 8, 8),
        <<Field("address", Signal(0, Enum(8), FALSE)),
          Field("value", Signal(8, Buffer(48), FALSE)),
          Field("flags", Signal(56, Bitset(8), FALSE))>>)
ClearStickyFaults ==
    MessageClass("ClearStickyFaults", MessageMeta(7, 5, 0, 8), <<>>)
PartyMode ==
    MessageClass("PartyMode", MessageMeta(7, 7, 1, 8),
        <<Field("party_level", Signal(0, UInt(8, Some(0), Some(255)), FALSE))>>)
OtaData ==
    MessageClass("OtaData", MessageMeta(7, 8, 8, 8),
        <<Field("data", Signal(0, Buffer(64), FALSE))>>)
OtaToHost ==
    MessageClass("OtaToHost", MessageMeta(7, 9, 8, 8),
        <<Field("to_host_data", Signal(0, Buffer(64), FALSE))>>)
OtaToDevice ==
    MessageClass("OtaToDevice", MessageMeta(7, 10, 8, 8),
        <<Field("to_device_data", Signal(0, Buffer(64), FALSE))>>)
AtomicBondAnnouncement ==
    MessageClass("AtomicBondAnnouncement", MessageMeta(7, 12, 8, 8),
        <<Field("gateway_serial", Signal(0, Buffer(48), FALSE)),
          Field("flags", Signal(48, Bitset(8), FALSE)),
          Field("rate", Signal(56, Enum(8), FALSE))>>)
AtomicBondSpecification ==
    MessageClass("AtomicBondSpecification", MessageMeta(7, 13, 8, 8),
        <<Field("device_serial", Signal(0, Buffer(48), FALSE)),
          Field("max_supported_rate", Signal(48, Enum(8), FALSE)),
          Field("current_rate", Signal(56, Enum(8), FALSE))>>)
PositionOutput ==
    MessageClass("PositionOutput", MessageMeta(7, 31, 6, 6),
        <<Field("relative_position", Signal(0, SInt(32, Some(-(2^30) - 2^30), Some((2^30 - 1) + 2^30)), FALSE)),
          Field("magnet_status", Signal(32, UInt(2, Some(0), Some(3)), FALSE)),
          Field("absolute_position", Signal(34, UInt(14, Some(0), Some(16383)), FALSE))>>)
\* (timestamp: max = 4294967295, the implicit maximum of a 32-bit field)
RawPositionOutput ==
    MessageClass("RawPositionOutput", MessageMeta(7, 29, 6, 6),
        <<Field("raw_position", Signal(0, UInt(14, Some(0), Some(16383)), FALSE)),
          Field("magnet_status", Signal(14, UInt(2, Some(0), Some(3)), FALSE)),
          Field("timestamp", Signal(16, UInt(32, Some(0), None), FALSE))>>)

\* a BaseDevice subclass: device_type, name and the messages table
BaseDevice(name, device_type, messages) ==
    [name |-> name, device_type |-> device_type, messages |-> messages]

\* Canandmag.messages
Canandmag_messages ==
    (0 :> CanIdArbitrate) @@ (1 :> CanIdError) @@ (2 :> SettingCommand) @@ (3 :> SetSetting)
    @@ (4 :> ReportSetting) @@ (5 :> ClearStickyFaults) @@ (6 :> Status) @@ (7 :> PartyMode)
    @@ (8 :> OtaData) @@ (9 :> OtaToHost) @@ (10 :> OtaToDevice) @@ (11 :> Enumerate)
    @@ (12 :> AtomicBondAnnouncement) @@ (13 :> AtomicBondSpecification)
    @@ (31 :> PositionOutput) @@ (30 :> VelocityOutput) @@ (29 :> RawPositionOutput)
Canandmag == BaseDevice("Canandmag", 7, Canandmag_messages)

\* decode_msg_generic returned None
NoneM == [err |-> "none", cls |-> "", val |-> PyNone]

\* arb_id & 0x1fff0000
type_vendor_of(arb_id) == BitAnd(BitsOf(arb_id), 16..28)
\* (arb_id >> 6) & 0xff
msg_id_of(arb_id) == ValOf(BitAnd(Shr(BitsOf(arb_id), 6), BitsOf(255)))

\* BaseDevice.decode_msg_generic(cls, msg)
decode_msg_generic(cls, msg) ==
    IF type_vendor_of(msg.arb_id) # BitOr(Shl(BitsOf(cls.device_type), 24), Shl(BitsOf(14), 16))
    THEN NoneM
    ELSE LET msg_id == msg_id_of(msg.arb_id)
         IN  IF msg_id \notin DOMAIN cls.messages THEN NoneM
             ELSE from_wrapper(cls.messages[msg_id], msg)

\* ------------------------------------------------------------------------
\* BaseSetting (model.py) and settings of the Canandmag (canandmag/setting.py)
\* ------------------------------------------------------------------------
SettingMeta(idx, set_setting, report_setting, stg_flags) ==
    [idx |-> idx, set_setting |-> set_setting, report_setting |-> report_setting,
     stg_flags |-> stg_flags]
SettingClass(name, meta, hints) == [name |-> name, meta |-> meta, hints |-> hints]

CanId ==
    SettingClass("CanId", SettingMeta(0, SetSetting, ReportSetting, SettingFlags),
        <<Field("value", Signal(0, UInt(8, Some(0), Some(63)), FALSE))>>)
Name0 ==
    SettingClass("Name0", SettingMeta(1, SetSetting, ReportSetting, SettingFlags),
        <<Field("value", Signal(0, Buffer(48), FALSE))>>)
StatusFramePeriod ==
    SettingClass("StatusFramePeriod", SettingMeta(4, SetSetting, ReportSetting, SettingFlags),
        <<Field("value", Signal(0, UInt(16, Some(0), Some(65535)), FALSE))>>)
InvertDirection ==
    SettingClass("InvertDirection", SettingMeta(250, SetSetting, ReportSetting, SettingFlags),
        <<Field("value", Signal(0, Boolean, FALSE))>>)

\* result of BaseSetting.encode: the 6 bytes, or the exception
RetB(s) == [err |-> "none", s |-> s]
RaiseB(e) == [err |-> e, s |-> <<>>]

\* BaseSetting.encode(self): self = [cls |-> setting class, f |-> name -> value]
BaseSetting_encode(self) ==
    LET hints  == self.cls.hints
        n      == Len(hints)
        enc(k) == Signal_encode(hints[k].sig, self.f[hints[k].name])
        bad    == {k \in 1..n : enc(k).err # "none"}
        data   == UNION {enc(k).bits : k \in 1..n}
    IN  IF bad # {} THEN RaiseB(enc(CHOOSE k \in bad : \A j \in bad : k <= j).err)
        ELSE IF ~fits_bytes(data, 6) THEN RaiseB("OverflowError")
        ELSE RetB(to_bytes(data, 6))

\* a dataclass constructor called with keyword arguments accepts exactly its
\* own field names
accepts(hints, kwargs) == DOMAIN kwargs = {hints[k].name : k \in 1..Len(hints)}

\* result of BaseSetting.to_wrapper: the value returned, or the exception
RetS(val) == [err |-> "none", ret |-> val]
RaiseS(e) == [err |-> e, ret |-> None]
PendingS == [err |-> "pending", ret |-> None]

\* BaseSetting.to_wrapper(self, dev_id, ephemeral, synch_hold, synch_cnt):
\* the arguments of set_setting(...) are evaluated left to right, the
\* constructor is called with the keywords address, data and flags, and the
\* frame built by .to_wrapper(dev_id) is dropped (the body has no return).
BaseSetting_to_wrapper(self, id, ephemeral, synch_hold, synch_cnt) ==
    LET meta    == self.cls.meta
        data    == BaseSetting_encode(self)
        fkw     == [ephemeral |-> PyInt(ephemeral), synch_hold |-> PyInt(synch_hold),
                    synch_msg_count |-> PyInt(synch_cnt)]
        kwargs  == [address |-> PyInt(meta.idx), data |-> PyBytes(data.s), flags |-> PyObj(fkw)]
    IN  IF data.err # "none" THEN RaiseS(data.err)
        ELSE IF ~accepts(meta.stg_flags, fkw) THEN RaiseS("TypeError")
        ELSE IF ~accepts(meta.set_setting.hints, kwargs) THEN RaiseS("TypeError")
        ELSE LET w == to_wrapper([cls |-> meta.set_setting, f |-> kwargs], id, None)
             IN  IF w.err # "none" THEN RaiseS(w.err) ELSE RetS(None)

\* ------------------------------------------------------------------------
\* Spec files (canandmessage_parser/toml_defs.py).  A field the parser never
\* reads (unit, utype, mux, ...) is left out of the records.
\* ------------------------------------------------------------------------
PyStr(s) == [t |-> "str", s |-> s]

EnumEntrySpec(id, comment) == [id |-> id, comment |-> comment]
EnumSpec(comment, btype, bits, is_public, default_value, values) ==
    [comment |-> comment, btype |-> btype, bits |-> bits, is_public |-> is_public,
     default_value |-> default_value, values |-> values]
SettingCommandSpec(id, vendordep, comment) == [id |-> id, vendordep |-> vendordep, comment |-> comment]
DeviceSettingSpec(id, comment, dtype, default_value) ==
    [id |-> id, comment |-> comment, dtype |-> dtype, default_value |-> default_value]
MessageSignalSpec(name, comment, dtype, optional, default_value) ==
    [name |-> name, comment |-> comment, dtype |-> dtype, optional |-> optional,
     default_value |-> default_value]
BitsetFlagSpec(name, comment) == [name |-> name, comment |-> comment]
TypeSpec(btype, bits, min, max, allow_nan_inf, default_value, factor, signals, bit_flags) ==
    [btype |-> btype, bits |-> bits, min |-> min, max |-> max, allow_nan_inf |-> allow_nan_inf,
     default_value |-> default_value, factor |-> factor, signals |-> signals,
     bit_flags |-> bit_flags]
DeviceMessageSpec(id, min_length, max_length, length, source, is_public, comment, signals) ==
    [id |-> id, min_length |-> min_length, max_length |-> max_length, length |-> length,
     source |-> source, is_public |-> is_public, comment |-> comment, signals |-> signals]
VendordepSpec(java_package, cpp_namespace) ==
    [java_package |-> java_package, cpp_namespace |-> cpp_namespace]
DeviceSpec(name, base, arch, is_public, dev_type, dev_class, msg, settings, types, enums, setting_commands, vendordep) ==
    [name |-> name, base |-> base, arch |-> arch, is_public |-> is_public,
     dev_type |-> dev_type, dev_class |-> dev_class, msg |-> msg, settings |-> settings,
     types |-> types, enums |-> enums, setting_commands |-> setting_commands,
     vendordep |-> vendordep]

\* ------------------------------------------------------------------------
\* parse_spec (canandmessage_parser/__init__.py)
\* ------------------------------------------------------------------------
\* result of parse_spec: the resolved DeviceSpec, or the exception
RetR(dev) == [err |-> "none", dev |-> dev]
RaiseR(e) == [err |-> e, dev |-> <<>>]

\* str.lower() on the names of the spec files
LowerCase == ("A" :> "a") @@ ("B" :> "b") @@ ("C" :> "c") @@ ("X" :> "x")
lower(name) == IF name \in DOMAIN LowerCase THEN LowerCase[name] ELSE name

RECURSIVE append_missing(_, _)
\* for base_dev_name in names: if base_dev_name not in base: base.append(base_dev_name)
append_missing(base, names) ==
    IF names = <<>> THEN base
    ELSE append_missing(IF \E i \in 1..Len(base) : base[i] = Head(names)
                        THEN base ELSE Append(base, Head(names)),
                        Tail(names))

\* faulty variant: the entries of the base win over those of the upper spec
merge_base_under(upper_dev, base_spec) ==
    [base_spec EXCEPT
        !.arch = upper_dev.arch,
        !.base = append_missing(@, upper_dev.base),
        !.dev_class = upper_dev.dev_class,
        !.dev_type = upper_dev.dev_type,
        !.name = upper_dev.name,
        !.enums = @ @@ upper_dev.enums,
        !.types = @ @@ upper_dev.types,
        !.msg = @ @@ upper_dev.msg,
        !.settings = @ @@ upper_dev.settings,
        !.setting_commands = @ @@ upper_dev.setting_commands,
        !.vendordep = upper_dev.vendordep]
\* the body of the loop over dev_spec.base: the base spec just loaded takes
\* the identity of the upper spec, and dict.update lets the upper spec's
\* entries replace the base's on equal keys
merge_base(upper_dev, base_spec) ==
    [base_spec EXCEPT
        !.arch = upper_dev.arch,
        !.base = append_missing(@, upper_dev.base),
        !.dev_class = upper_dev.dev_class,
        !.dev_type = upper_dev.dev_type,
        !.name = upper_dev.name,
        !.enums = upper_dev.enums @@ @,
        !.types = upper_dev.types @@ @,
        !.msg = upper_dev.msg @@ @,
        !.settings = upper_dev.settings @@ @,
        !.setting_commands = upper_dev.setting_commands @@ @,
        !.vendordep = upper_dev.vendordep]

RECURSIVE merge_bases(_, _, _)
\* for base in dev_spec.base: the bases still to load, in declared order;
\* open() raises FileNotFoundError when the base's file does not exist
merge_bases(fs, upper_dev, bases) ==
    IF bases = <<>> THEN RetR(upper_dev)
    ELSE LET file == lower(Head(bases))
         IN  IF file \notin DOMAIN fs THEN RaiseR("FileNotFoundError")
             ELSE merge_bases(fs, merge_base(upper_dev, fs[file]), Tail(bases))

\* EnumSpec.from_dict({"btype": "uint", "bits": 8, "is_public": True,
\*                     "default_value": "", "values": {name: {id, comment}}})
setting_enum(entries) ==
    EnumSpec("", "uint", 8, TRUE, "",
             [name \in DOMAIN entries |-> EnumEntrySpec(entries[name].id, entries[name].comment)])

\* faulty variant: an enum of that name already in the spec is kept
with_setting_enums_kept(dev) ==
    [dev EXCEPT !.enums = @ @@ ("SETTING" :> setting_enum(dev.settings))
                            @@ ("SETTING_COMMAND" :> setting_enum(dev.setting_commands))]
\* dev.enums['SETTING'] = ...; dev.enums['SETTING_COMMAND'] = ...
with_setting_enums(dev) ==
    [dev EXCEPT !.enums = ("SETTING" :> setting_enum(dev.settings))
                          @@ ("SETTING_COMMAND" :> setting_enum(dev.setting_commands)) @@ @]

\* parse_spec(spec_path): fs is the directory of spec_path, file name -> the
\* DeviceSpec its TOML holds
parse_spec(fs, spec_path) ==
    IF spec_path \notin DOMAIN fs THEN RaiseR("FileNotFoundError")
    ELSE LET dev_spec == fs[spec_path]
             merged   == merge_bases(fs, dev_spec, dev_spec.base)
         IN  IF merged.err # "none" THEN merged
             ELSE RetR(with_setting_enums(merged.dev))

\* ------------------------------------------------------------------------
\* The device model (canandmessage_parser/__init__.py)
\* ------------------------------------------------------------------------
UIntMeta(width, min, max, default_value, factor_num, factor_den, offset) ==
    [kind |-> "UIntMeta", width |-> width, min |-> min, max |-> max,
     default_value |-> default_value, factor_num |-> factor_num, factor_den |-> factor_den,
     offset |-> offset]
SIntMeta(width, min, max, default_value, factor_num, factor_den, offset) ==
    [kind |-> "SIntMeta", width |-> width, min |-> min, max |-> max,
     default_value |-> default_value, factor_num |-> factor_num, factor_den |-> factor_den,
     offset |-> offset]
FloatMeta(width, min, max, default_value, allow_nan_inf, factor_num, factor_den, offset) ==
    [kind |-> "FloatMeta", width |-> width, min |-> min, max |-> max,
     default_value |-> default_value, allow_nan_inf |-> allow_nan_inf,
     factor_num |-> factor_num, factor_den |-> factor_den, offset |-> offset]
BitsetFlag(bit_idx, default_value, name, comment) ==
    [bit_idx |-> bit_idx, default_value |-> default_value, name |-> name, comment |-> comment]
BufMeta(width, default_value) == [kind |-> "BufMeta", width |-> width, default_value |-> default_value]
EnumMeta(name, width, default_value, default_value_idx, is_public, values) ==
    [kind |-> "EnumMeta", name |-> name, width |-> width, default_value |-> default_value,
     default_value_idx |-> default_value_idx, is_public |-> is_public, values |-> values]
EnumEntry(name, comment, index) == [name |-> name, comment |-> comment, index |-> index]
StructMeta(name, signals) == [kind |-> "StructMeta", name |-> name, signals |-> signals]
BitsetMeta(name, width, flags) == [kind |-> "BitsetMeta", name |-> name, width |-> width, flags |-> flags]
PadMeta(width) == [kind |-> "PadMeta", width |-> width]
BoolMeta(default_value) == [kind |-> "BoolMeta", default_value |-> default_value]
\* DType(meta); DType(None) holds NoMeta
NoMeta == [kind |-> "None"]
DType(meta) == [meta |-> meta]
\* the parser's Signal(name, comment, dtype, optional)
ParserSignal(name, comment, dtype, optional) ==
    [name |-> name, comment |-> comment, dtype |-> dtype, optional |-> optional]

\* Source.from_str
Source_from_str == ("device" :> "Device") @@ ("host" :> "Host") @@ ("bidir" :> "Both") @@ ("both" :> "Both")
Message(id, min_length, max_length, comment, is_public, signals, source) ==
    [id |-> id, min_length |-> min_length, max_length |-> max_length, comment |-> comment,
     is_public |-> is_public, signals |-> signals, source |-> source]
\* Setting; readable, writable, reset_on_default, vendordep, vdep_setting and
\* special_flags are copied from the spec unchanged and left out
Setting(name, id, comment, dtype) == [name |-> name, id |-> id, comment |-> comment, dtype |-> dtype]
Device(name, arch, dev_type, dev_class, messages, settings, enums, bitsets, structs, java_package, cpp_namespace, spec) ==
    [name |-> name, arch |-> arch, dev_type |-> dev_type, dev_class |-> dev_class,
     messages |-> messages, settings |-> settings, enums |-> enums, bitsets |-> bitsets,
     structs |-> structs, java_package |-> java_package, cpp_namespace |-> cpp_namespace,
     spec |-> spec]

\* BitsetMeta.default_u64
default_u64(self) ==
    ValOf({self.flags[i].bit_idx : i \in {j \in 1..Len(self.flags) : self.flags[j].default_value}})

\* ------------------------------------------------------------------------
\* Lowering (canandmessage_parser/model_impl.py).  A value read from TOML is
\* an optional Python value; a dtype name is held split at ':', the width
\* after the colon as a number.
\* ------------------------------------------------------------------------

\* float(n) for an int n: the binary64 pattern of n
float_of_int(n) ==
    IF n = 0 THEN {}
    ELSE LET a   == BitsOf(IF n < 0 THEN -n ELSE n)
             top == TopBit(a)
         IN  (IF n < 0 THEN {63} ELSE {}) \cup Shl(BitsOf(1023 + top), 52) \cup Shl(a \ {top}, 52 - top)
\* int(d) for a finite float d: truncation toward zero
int_of_float(d) ==
    LET e == DExp(d) - 1023
    IN  IF e < 0 THEN 0
        ELSE (IF DSign(d) THEN -1 ELSE 1) * ValOf(Shr(DMant(d) \cup {52}, 52 - e))
\* float(v), int(v), bool(v) on the numbers read from TOML
py_float(v) == IF v.t = "int" THEN PyFloat(float_of_int(v.i)) ELSE v
py_int(v) == IF v.t = "float" THEN PyInt(int_of_float(v.d)) ELSE v
truthy(v) ==
    CASE v.t = "int" -> v.i # 0
      [] v.t = "float" -> ~DIsZero(v.d)
      [] v.t = "str" -> v.s # ""
      [] OTHER -> FALSE
\* bool(v) for an optional value (bool(None) is False)
py_bool(v) == PyInt(IF v.some /\ truthy(v.v) THEN 1 ELSE 0)
\* utils.none_map(v, f), f being the builtin int or float
none_map(v, f) == IF v.some THEN Some(IF f = "int" THEN py_int(v.v) ELSE py_float(v.v)) ELSE None

\* faulty variant: an unknown default name falls back to index 0 for every enum
impl_EnumMeta_from_lenient(name, entry, default_value) ==
    LET dv     == IF default_value.some /\ truthy(default_value.v)
                  THEN default_value.v ELSE PyStr(entry.default_value)
        known  == dv.t = "str" /\ dv.s \in DOMAIN entry.values
        ids    == {entry.values[k].id : k \in DOMAIN entry.values}
        of(id) == CHOOSE k \in DOMAIN entry.values : entry.values[k].id = id
    IN  Ret(EnumMeta(name, entry.bits,
                     IF known THEN dv.s ELSE "",
                     IF known THEN entry.values[dv.s].id ELSE 0,
                     entry.is_public,
                     [id \in ids |-> EnumEntry(of(id), entry.values[of(id)].comment, id)]))
\* impl_EnumMeta_from(name, entry, default_value); the entries of an enum
\* carry distinct ids
impl_EnumMeta_from(name, entry, default_value) ==
    LET dv     == IF default_value.some /\ truthy(default_value.v)
                  THEN default_value.v ELSE PyStr(entry.default_value)
        known  == dv.t = "str" /\ dv.s \in DOMAIN entry.values
        ids    == {entry.values[k].id : k \in DOMAIN entry.values}
        of(id) == CHOOSE k \in DOMAIN entry.values : entry.values[k].id = id
    IN  IF ~known /\ name \notin {"SETTING", "SETTING_COMMAND"} THEN RaiseV("ValueError")
        ELSE Ret(EnumMeta(name, entry.bits,
                          IF known THEN dv.s ELSE "",
                          IF known THEN entry.values[dv.s].id ELSE 0,
                          entry.is_public,
                          [id \in ids |-> EnumEntry(of(id), entry.values[of(id)].comment, id)]))

\* impl_BitsetMeta_from(name, type_def)
impl_BitsetMeta_from(name, type_def) ==
    LET default_value == unwrap_or(none_map(type_def.default_value, "int"), PyInt(0))
    IN  BitsetMeta(name, type_def.bits,
                   [k \in 1..Len(type_def.bit_flags) |->
                       BitsetFlag(k - 1, (default_value.i \div (2^(k - 1))) % 2 > 0,
                                  type_def.bit_flags[k].name, type_def.bit_flags[k].comment)])

RECURSIVE impl_DType_from_type(_, _, _, _)
RECURSIVE impl_DType_from_sig(_, _, _)
RECURSIVE impl_StructMeta_from(_, _, _)

\* impl_DType_from_type(type_name, type_def, default_value, dev)
impl_DType_from_type(type_name, type_def, default_value0, dev) ==
    LET default_value == IF default_value0.some THEN default_value0 ELSE type_def.default_value
        width == type_def.bits
    IN  CASE type_def.btype = "uint" ->
               Ret(DType(UIntMeta(width, py_int(unwrap_or(type_def.min, PyInt(0))),
                                  py_int(unwrap_or(type_def.max, PyInt(default_uint_max(width)))),
                                  unwrap_or(default_value, PyInt(0)),
                                  type_def.factor[1], type_def.factor[2], 0)))
          [] type_def.btype = "sint" ->
               Ret(DType(SIntMeta(width, py_int(unwrap_or(type_def.min, PyInt(default_sint_min(width)))),
                                  py_int(unwrap_or(type_def.max, PyInt(default_sint_max(width)))),
                                  unwrap_or(default_value, PyInt(0)),
                                  type_def.factor[1], type_def.factor[2], 0)))
          [] type_def.btype = "buf" ->
               Ret(DType(BufMeta(width, unwrap_or(default_value, PyInt(0)))))
          [] type_def.btype = "float" ->
               Ret(DType(FloatMeta(width, none_map(type_def.min, "float"),
                                   none_map(type_def.max, "float"),
                                   unwrap_or(none_map(default_value, "float"), PyInt(0)),
                                   type_def.allow_nan_inf,
                                   type_def.factor[1], type_def.factor[2], 0)))
          [] type_def.btype = "bitset" ->
               Ret(DType(impl_BitsetMeta_from(type_name, type_def)))
          [] type_def.btype = "pad" -> Ret(DType(PadMeta(width)))
          [] type_def.btype = "bool" ->
               Ret(DType(BoolMeta(IF default_value.some THEN default_value.v ELSE PyNone)))
          [] type_def.btype = "struct" ->
               LET m == impl_StructMeta_from(type_name, type_def, dev)
               IN  IF m.err # "none" THEN m ELSE Ret(DType(m.val))
          [] OTHER ->
               IF type_def.btype \notin DOMAIN dev.types THEN RaiseV("KeyError")
               ELSE impl_DType_from_type(type_def.btype, dev.types[type_def.btype],
                                         default_value, dev)

\* impl_DType_from_sig(dev, dtype_name, default_value)
impl_DType_from_sig(dev, nsplit, default_value) ==
    CASE nsplit[1] = "none" -> Ret(DType(NoMeta))
      [] nsplit[1] = "buf" ->
           Ret(DType(BufMeta(nsplit[2], unwrap_or(none_map(default_value, "int"), PyInt(0)))))
      [] nsplit[1] = "uint" ->
           Ret(DType(UIntMeta(nsplit[2], PyInt(0), PyInt(default_uint_max(nsplit[2])),
                              unwrap_or(none_map(default_value, "int"), PyInt(0)), 1, 1, 0)))
      [] nsplit[1] = "sint" ->
           Ret(DType(SIntMeta(nsplit[2], PyInt(default_sint_min(nsplit[2])),
                              PyInt(default_sint_max(nsplit[2])),
                              unwrap_or(none_map(default_value, "int"), PyInt(0)), 1, 1, 0)))
      [] nsplit[1] = "float" ->
           Ret(DType(FloatMeta(nsplit[2], None, None,
                               unwrap_or(none_map(default_value, "float"), PyInt(0)),
                               TRUE, 1, 1, 0)))
      [] nsplit[1] = "pad" -> Ret(DType(PadMeta(nsplit[2])))
      [] nsplit[1] = "bool" -> Ret(DType(BoolMeta(py_bool(default_value))))
      [] nsplit[1] = "setting_data" -> Ret(DType(BufMeta(48, PyInt(0))))
      [] nsplit[1] = "enum" ->
           IF nsplit[2] \notin DOMAIN dev.enums THEN RaiseV("KeyError")
           ELSE LET m == impl_EnumMeta_from(nsplit[2], dev.enums[nsplit[2]], default_value)
                IN  IF m.err # "none" THEN m ELSE Ret(DType(m.val))
      [] OTHER ->
           IF Len(nsplit) # 1 \/ nsplit[1] \notin DOMAIN dev.types THEN RaiseV("KeyError")
           ELSE impl_DType_from_type(nsplit[1], dev.types[nsplit[1]], default_value, dev)

\* impl_StructMeta_from(name, ent, dev)
impl_StructMeta_from(name, ent, dev) ==
    LET n      == Len(ent.signals)
        dt(k)  == impl_DType_from_sig(dev, ent.signals[k].dtype, ent.signals[k].default_value)
        bad    == {k \in 1..n : dt(k).err # "none"}
    IN  IF bad # {} THEN dt(CHOOSE k \in bad : \A j \in bad : k <= j)
        ELSE Ret(StructMeta(name,
                            [k \in 1..n |-> ParserSignal(ent.signals[k].name, ent.signals[k].comment,
                                                         dt(k).val, ent.signals[k].optional)]))

\* impl_Signal_from(sgnl, dev)
impl_Signal_from(sgnl, dev) ==
    LET dtype == impl_DType_from_sig(dev, sgnl.dtype, sgnl.default_value)
    IN  IF dtype.err # "none" THEN dtype
        ELSE Ret(ParserSignal(sgnl.name, sgnl.comment, dtype.val, sgnl.optional))

\* faulty variant: a bound of 0 is taken for an absent bound
impl_Message_from_falsy(dm, dev) ==
    LET min_length == IF dm.length.some THEN dm.length.v ELSE (IF dm.min_length.some /\ dm.min_length.v # 0 THEN dm.min_length.v ELSE 0)
        max_length == IF dm.length.some THEN dm.length.v ELSE (IF dm.max_length.some /\ dm.max_length.v # 0 THEN dm.max_length.v ELSE 8)
        sg(k)      == impl_Signal_from(dm.signals[k], dev)
        bad        == {k \in 1..Len(dm.signals) : sg(k).err # "none"}
    IN  IF bad # {} THEN sg(CHOOSE k \in bad : \A j \in bad : k <= j)
        ELSE IF dm.source \notin DOMAIN Source_from_str THEN RaiseV("KeyError")
        ELSE Ret(Message(dm.id, min_length, max_length, dm.comment, dm.is_public,
                         [k \in 1..Len(dm.signals) |-> sg(k).val], Source_from_str[dm.source]))
\* impl_Message_from(dm, dev)
impl_Message_from(dm, dev) ==
    LET min_length == IF dm.length.some THEN dm.length.v ELSE unwrap_or(dm.min_length, 0)
        max_length == IF dm.length.some THEN dm.length.v ELSE unwrap_or(dm.max_length, 8)
        sg(k)      == impl_Signal_from(dm.signals[k], dev)
        bad        == {k \in 1..Len(dm.signals) : sg(k).err # "none"}
    IN  IF bad # {} THEN sg(CHOOSE k \in bad : \A j \in bad : k <= j)
        ELSE IF dm.source \notin DOMAIN Source_from_str THEN RaiseV("KeyError")
        ELSE Ret(Message(dm.id, min_length, max_length, dm.comment, dm.is_public,
                         [k \in 1..Len(dm.signals) |-> sg(k).val], Source_from_str[dm.source]))

\* impl_Setting_from(name, value, dev)
impl_Setting_from(name, value, dev) ==
    LET dtype == impl_DType_from_sig(dev, value.dtype, value.default_value)
    IN  IF dtype.err # "none" THEN dtype
        ELSE Ret(Setting(name, value.id, value.comment, dtype.val))

\* the entries of a lowered map that raised
Failed(m) == {k \in DOMAIN m : m[k].err # "none"}
\* impl_Device_from(dev_spec): the maps are lowered in the order messages,
\* settings, enums, bitsets, structs and the first exception ends the call;
\* within one map the entries are lowered in the order of the TOML file, which
\* the maps do not keep, so of several failing entries of one map any one
\* stands for the one that raises
impl_Device_from(dev_spec) ==
    LET messages == [n \in DOMAIN dev_spec.msg |-> impl_Message_from(dev_spec.msg[n], dev_spec)]
        settings == [n \in DOMAIN dev_spec.settings |->
                        impl_Setting_from(n, dev_spec.settings[n], dev_spec)]
        enums    == [n \in DOMAIN dev_spec.enums |-> impl_EnumMeta_from(n, dev_spec.enums[n], None)]
        bitsets  == [n \in {t \in DOMAIN dev_spec.types : dev_spec.types[t].btype = "bitset"} |->
                        impl_BitsetMeta_from(n, dev_spec.types[n])]
        structs  == [n \in {t \in DOMAIN dev_spec.types : dev_spec.types[t].btype = "struct"} |->
                        impl_StructMeta_from(n, dev_spec.types[n], dev_spec)]
    IN  CASE Failed(messages) # {} -> messages[CHOOSE n \in Failed(messages) : TRUE]
          [] Failed(settings) # {} -> settings[CHOOSE n \in Failed(settings) : TRUE]
          [] Failed(enums) # {} -> enums[CHOOSE n \in Failed(enums) : TRUE]
          [] Failed(structs) # {} -> structs[CHOOSE n \in Failed(structs) : TRUE]
          [] OTHER ->
               Ret(Device(dev_spec.name, dev_spec.arch, dev_spec.dev_type, dev_spec.dev_class,
                          [n \in DOMAIN messages |-> messages[n].val],
                          [n \in DOMAIN settings |-> settings[n].val],
                          [n \in DOMAIN enums |-> enums[n].val],
                          bitsets,
                          [n \in DOMAIN structs |-> structs[n].val],
                          dev_spec.vendordep.java_package, dev_spec.vendordep.cpp_namespace,
                          dev_spec))

\* ------------------------------------------------------------------------
\* DType.bit_length (canandmessage_parser/__init__.py)
\* ------------------------------------------------------------------------
RECURSIVE DType_bit_length(_)
RECURSIVE SumBitLengths(_)
\* sum(sig.dtype.bit_length() for sig in signals)
SumBitLengths(signals) ==
    IF signals = <<>> THEN 0
    ELSE DType_bit_length(Head(signals).dtype) + SumBitLengths(Tail(signals))
\* DType.bit_length()
DType_bit_length(self) ==
    CASE self.meta.kind = "None" -> 0
      [] self.meta.kind = "BoolMeta" -> 1
      [] self.meta.kind = "StructMeta" -> SumBitLengths(self.meta.signals)
      [] OTHER -> self.meta.width

\* ------------------------------------------------------------------------
\* DType.default_value_as_bits (canandmessage_parser/__init__.py).  The int
\* it returns may be negative or wider than a small integer: it is held in
\* two's complement as its one-bits below LongBits and whether the bits from
\* there on are all ones.
\* ------------------------------------------------------------------------
LongBits == 64
PyLong(neg, bits) == [t |-> "long", neg |-> neg, bits |-> bits]
\* a small integer as such an int
long_of(n) ==
    IF n >= 0 THEN PyLong(FALSE, BitsOf(n)) ELSE PyLong(TRUE, (0..(LongBits - 1)) \ BitsOf(-n - 1))
\* a | b and a << n
long_or(a, b) == PyLong(a.neg \/ b.neg, a.bits \cup b.bits)
long_shl(a, n) == PyLong(a.neg, {i \in Shl(a.bits, n) : i < LongBits})
\* a default value as it stands in the meta: an int or a float
as_long(v) == IF v.t = "int" THEN long_of(v.i) ELSE v

RECURSIVE default_value_as_bits(_)
RECURSIVE or_defaults(_, _, _)
\* the loop over the sub-signals of a struct: ivalue |= bits << ishift
or_defaults(signals, ivalue, ishift) ==
    IF signals = <<>> THEN Ret(ivalue)
    ELSE LET sub == default_value_as_bits(Head(signals).dtype)
         IN  IF sub.err # "none" THEN sub
             ELSE IF sub.val.t # "long" THEN RaiseV("TypeError")
             ELSE or_defaults(Tail(signals), long_or(ivalue, long_shl(sub.val, ishift)),
                              ishift + DType_bit_length(Head(signals).dtype))
\* DType.default_value_as_bits()
default_value_as_bits(self) ==
    LET meta == self.meta
    IN  CASE meta.kind \in {"UIntMeta", "SIntMeta", "BufMeta"} -> Ret(as_long(meta.default_value))
          [] meta.kind = "FloatMeta" ->
               LET d == py_float(meta.default_value).d
               IN  IF meta.width \in {24, 32}
                   THEN IF pack_f(d).err # "none" THEN RaiseV("OverflowError")
                        ELSE Ret(PyLong(FALSE, IF meta.width = 24 THEN Shr(pack_f(d).bits, 8)
                                               ELSE pack_f(d).bits))
                   ELSE IF meta.width = 64 THEN Ret(PyLong(FALSE, d))
                   ELSE RaiseV("ValueError")
          [] meta.kind = "BoolMeta" ->
               IF meta.default_value.t = "None" THEN RaiseV("TypeError")
               ELSE Ret(as_long(py_int(meta.default_value)))
          [] meta.kind = "PadMeta" -> Ret(long_of(0))
          [] meta.kind = "StructMeta" -> or_defaults(meta.signals, long_of(0), 0)
          [] meta.kind = "BitsetMeta" -> Ret(long_of(default_u64(meta)))
          [] meta.kind = "EnumMeta" ->
               Ret(long_of(IF meta.default_value # "" THEN meta.default_value_idx ELSE 0))
          [] OTHER -> Ret(PyNone)

\* ------------------------------------------------------------------------
\* The Python generator (python.py).  Generated text is held as the template
\* and the values filled in; a converted name as the conversion and the name.
\* ------------------------------------------------------------------------
Camel(prefix, name) == [prefix |-> prefix, camel |-> name]
\* name_for_dtype(dtype, prefix): None for a pad and for DType(None)
name_for_dtype(dtype, prefix) ==
    CASE dtype.meta.kind \in {"UIntMeta", "SIntMeta"} -> Some("int")
      [] dtype.meta.kind = "FloatMeta" -> Some("float")
      [] dtype.meta.kind = "BoolMeta" -> Some("bool")
      [] dtype.meta.kind \in {"StructMeta", "BitsetMeta", "EnumMeta"} ->
           Some(Camel(prefix, dtype.meta.name))
      [] dtype.meta.kind = "BufMeta" -> Some("bytearray")
      [] OTHER -> None

\* meta_for_dtype(dtype, prefix): the constructor call written after the
\* offset; the default of a float is finite in every spec of the model
meta_for_dtype(dtype, prefix) ==
    LET meta == dtype.meta
    IN  CASE meta.kind \in {"UIntMeta", "SIntMeta"} ->
               Ret([cls |-> IF meta.kind = "UIntMeta" THEN "UInt" ELSE "SInt", width |-> meta.width,
                    min |-> meta.min, max |-> meta.max, default_value |-> meta.default_value,
                    factor_num |-> meta.factor_num, factor_den |-> meta.factor_den,
                    offset |-> meta.offset])
          [] meta.kind = "FloatMeta" ->
               Ret([cls |-> "Float", width |-> meta.width, min |-> meta.min, max |-> meta.max,
                    default_value |-> meta.default_value, allow_nan_inf |-> meta.allow_nan_inf,
                    factor_num |-> meta.factor_num, factor_den |-> meta.factor_den,
                    offset |-> meta.offset])
          [] meta.kind = "BoolMeta" -> Ret([cls |-> "Boolean", default_value |-> meta.default_value])
          [] meta.kind = "StructMeta" -> Ret([cls |-> "Struct", dtype |-> Camel(prefix, meta.name)])
          [] meta.kind = "BitsetMeta" ->
               Ret([cls |-> "Bitset", width |-> meta.width, dtype |-> Camel(prefix, meta.name),
                    default_value |-> default_u64(meta)])
          [] meta.kind = "BufMeta" ->
               \* meta.default_value.to_bytes((meta.width + 7) // 8, 'little')
               IF meta.default_value.t # "int" THEN RaiseV("AttributeError")
               ELSE IF meta.default_value.i < 0
                       \/ ~fits_bytes(BitsOf(meta.default_value.i), (meta.width + 7) \div 8)
               THEN RaiseV("OverflowError")
               ELSE Ret([cls |-> "Buffer", width |-> meta.width,
                         default_value |-> to_bytes(BitsOf(meta.default_value.i),
                                                    (meta.width + 7) \div 8)])
          [] meta.kind = "EnumMeta" ->
               Ret([cls |-> "Enum", width |-> meta.width, dtype |-> Camel(prefix, meta.name),
                    default_value |-> IF meta.default_value # "" THEN PyStr(meta.default_value)
                                      ELSE PyInt(0)])
          [] OTHER -> Ret(PyNone)

RECURSIVE gen_composite_signal_from(_, _, _)
\* the loop of gen_composite_signal, from index idx on: one entry per signal
\* that has a Python type, written with the running index as its offset
gen_composite_signal_from(signals, prefix, idx) ==
    IF signals = <<>> THEN Ret(<<>>)
    ELSE LET ent        == Head(signals)
             dtype_name == name_for_dtype(ent.dtype, prefix)
             rest       == gen_composite_signal_from(Tail(signals), prefix,
                                                     idx + DType_bit_length(ent.dtype))
         IN  IF ~dtype_name.some THEN rest
             ELSE LET dtype == meta_for_dtype(ent.dtype, prefix)
                  IN  IF dtype.err # "none" THEN dtype
                      ELSE IF rest.err # "none" THEN rest
                      ELSE Ret(<<[name |-> ent.name, htype |-> dtype_name.v, offset |-> idx,
                                  dtype |-> dtype.val, optional |-> ent.optional,
                                  comment |-> ent.comment]>> \o rest.val)
\* gen_composite_signal(signals, prefix)
gen_composite_signal(signals, prefix) == gen_composite_signal_from(signals, prefix, 0)

RECURSIVE python_gen_msg(_, _)
\* python.gen_msg(dev): one class per message, in the order of dev.messages
python_gen_msg(dev, messages) ==
    IF messages = <<>> THEN Ret(<<>>)
    ELSE LET name    == Head(messages)[1]
             msg     == Head(messages)[2]
             entries == gen_composite_signal(msg.signals, "device_types.")
             rest    == python_gen_msg(dev, Tail(messages))
         IN  IF entries.err # "none" THEN entries
             ELSE IF rest.err # "none" THEN rest
             ELSE Ret(<<[name |-> Camel("", name), entries |-> entries.val,
                         device_type |-> dev.dev_type, id |-> msg.id,
                         min_length |-> msg.min_length, max_length |-> msg.max_length]>>
                      \o rest.val)
RECURSIVE python_gen_stg(_, _)
\* python.gen_stg(dev): one class per setting, in the order of dev.settings
python_gen_stg(dev, settings) ==
    IF settings = <<>> THEN Ret(<<>>)
    ELSE LET name    == Head(settings)[1]
             stg     == Head(settings)[2]
             entries == gen_composite_signal(
                            <<ParserSignal("value", "Setting value", stg.dtype, FALSE)>>,
                            "device_types.")
             rest    == python_gen_stg(dev, Tail(settings))
         IN  IF entries.err # "none" THEN entries
             ELSE IF rest.err # "none" THEN rest
             ELSE Ret(<<[name |-> Camel("", name), entries |-> entries.val, idx |-> stg.id]>>
                      \o rest.val)

\* ------------------------------------------------------------------------
\* Ordering of dicts (utils.py, rst.py).  A dict is the sequence of its items
\* <<name, entry>> in insertion order.
\* ------------------------------------------------------------------------
\* sorted(items, key = keys[i] for item i, reverse): Python's sort is stable,
\* also under reverse = True
sorted_by(items, keys, reverse) ==
    LET n == Len(items)
        before(j, i) == \/ (IF reverse THEN keys[j] > keys[i] ELSE keys[j] < keys[i])
                        \/ (keys[j] = keys[i] /\ j < i)
        rank(i) == Cardinality({j \in 1..n : before(j, i)}) + 1
    IN  [k \in 1..n |-> items[CHOOSE i \in 1..n : rank(i) = k]]
\* [x for x in items if keep[x]]
RECURSIVE filtered(_, _)
filtered(items, keep) ==
    IF items = <<>> THEN <<>>
    ELSE (IF keep[1] THEN <<Head(items)>> ELSE <<>>) \o filtered(Tail(items), Tail(keep))
IdsOf(items) == [i \in 1..Len(items) |-> items[i][2].id]
PublicOf(items) == [i \in 1..Len(items) |-> items[i][2].is_public]
\* faulty variant: entries of equal id come out in reverse order
rsort_by_ent_id_flipped(dct) ==
    LET up == sorted_by(dct, IdsOf(dct), FALSE)
    IN  [k \in 1..Len(dct) |-> up[Len(dct) + 1 - k]]
\* utils.rsort_by_ent_id(dct)
rsort_by_ent_id(dct) == sorted_by(dct, IdsOf(dct), TRUE)
\* rst.renderable_messages(dev), renderable_settings(dev): sorted on -id
renderable_messages(dev) ==
    LET shown == filtered(dev.msg, PublicOf(dev.msg))
    IN  sorted_by(shown, [i \in 1..Len(shown) |-> -shown[i][2].id], FALSE)
renderable_settings(dev) ==
    LET shown == filtered(dev.settings, PublicOf(dev.settings))
    IN  sorted_by(shown, [i \in 1..Len(shown) |-> -shown[i][2].id], FALSE)
\* rst.renderable_setting_commands(dev)
renderable_setting_commands(dev) ==
    sorted_by(dev.setting_commands, IdsOf(dev.setting_commands), FALSE)

\* ------------------------------------------------------------------------
\* The Java generator (java.py).  A Java expression is held as its syntax
\* tree; a signal name is the path of the names joined with "_".
\* ------------------------------------------------------------------------
\* DType.canonical_name()
canonical_name(dtype) ==
    CASE dtype.meta.kind = "UIntMeta" -> Ret(<<"uint", dtype.meta.width>>)
      [] dtype.meta.kind = "SIntMeta" -> Ret(<<"sint", dtype.meta.width>>)
      [] dtype.meta.kind = "FloatMeta" -> Ret(<<"float", dtype.meta.width>>)
      [] dtype.meta.kind = "BoolMeta" -> Ret(<<"bool">>)
      [] dtype.meta.kind = "PadMeta" -> Ret(<<"pad", dtype.meta.width>>)
      [] dtype.meta.kind = "StructMeta" -> Ret(<<"struct", dtype.meta.name>>)
      [] dtype.meta.kind = "BitsetMeta" -> Ret(<<"bitset", dtype.meta.width>>)
      [] dtype.meta.kind = "BufMeta" -> Ret(<<"buf", dtype.meta.width>>)
      [] dtype.meta.kind = "EnumMeta" -> Ret(<<"enum", dtype.meta.name>>)
      [] OTHER -> RaiseV("ValueError")

\* get_type_for_dtype(dtype)
get_type_for_dtype(dtype) ==
    CASE dtype.meta.kind \in {"SIntMeta", "BitsetMeta"} ->
           IF dtype.meta.width <= 32 THEN "int" ELSE "long"
      [] dtype.meta.kind = "BoolMeta" -> "boolean"
      [] dtype.meta.kind = "FloatMeta" -> IF dtype.meta.width <= 32 THEN "float" ELSE "double"
      [] OTHER -> IF DType_bit_length(dtype) < 32 THEN "int" ELSE "long"

\* rshift_to_long(expr, offset)
rshift_to_long(expr, offset) ==
    IF offset = 0 THEN expr ELSE [op |-> "<<", e |-> expr, n |-> offset]
\* the operand expressions of jtype_to_long
JCast(name) == [op |-> "(long) x", x |-> name]
JCastMask(name, m) == [op |-> "(long) x & m", x |-> name, m |-> m]
JMask(name, m) == [op |-> "x & m", x |-> name, m |-> m]
JName(name) == [op |-> "x", x |-> name]
JBool(name) == [op |-> "x ? 1L : 0L", x |-> name]
JFloat24(name, m) == [op |-> "(long) (Float.floatToIntBits(x) >> 8) & m", x |-> name, m |-> m]
JFloat32(name, m) == [op |-> "(long) Float.floatToIntBits(x) & m", x |-> name, m |-> m]
JDouble(name) == [op |-> "Double.doubleToLongBits(x)", x |-> name]
\* jtype_to_long(name, jtype, offset, width); the masks are held as bit sets
jtype_to_long(name, jtype, offset, width) ==
    CASE jtype = "int" ->
           Ret(rshift_to_long(IF width < 32 THEN JCast(name) ELSE JCastMask(name, mask(32)),
                              offset))
      [] jtype = "long" ->
           Ret(rshift_to_long(IF width # 64 THEN JMask(name, mask(width)) ELSE JName(name), offset))
      [] jtype = "boolean" -> Ret(rshift_to_long(JBool(name), offset))
      [] jtype = "float" ->
           IF width = 24 THEN Ret(rshift_to_long(JFloat24(name, mask(24)), offset))
           ELSE IF width = 32 THEN Ret(rshift_to_long(JFloat32(name, mask(32)), offset))
           ELSE RaiseV("ValueError")
      [] jtype = "double" -> Ret(rshift_to_long(JDouble(name), offset))

\* gen_check(expr, err_msg): the condition that throws
RangeCheck(name, min, max, long) ==
    [cond |-> "x < min || x > max", x |-> name, min |-> min, max |-> max, long |-> long]
MinCheck(name, min) == [cond |-> "x < min", x |-> name, min |-> min]
MaxCheck(name, max) == [cond |-> "x > max", x |-> name, max |-> max]
FiniteCheck(name, jtype) == [cond |-> "!isFinite(x)", x |-> name, jtype |-> jtype]

RECURSIVE gen_sig_checks(_)
RECURSIVE gen_sig_checks_each(_, _)
\* the loop over the sub-signals of a struct signal
gen_sig_checks_each(sig, subsigs) ==
    IF subsigs = <<>> THEN <<>>
    ELSE gen_sig_checks([Head(subsigs) EXCEPT !.name = sig.name \o <<Head(subsigs).name>>])
         \o gen_sig_checks_each(sig, Tail(subsigs))
\* gen_sig_checks(sig)
gen_sig_checks(sig) ==
    LET meta  == sig.dtype.meta
        jtype == get_type_for_dtype(sig.dtype)
        long  == jtype = "long"
    IN  CASE meta.kind = "UIntMeta" ->
               IF meta.width = 64 THEN <<>>
               ELSE <<RangeCheck(sig.name, meta.min, meta.max, long)>>
          [] meta.kind = "SIntMeta" ->
               IF /\ meta.width \in {32, 64}
                  /\ meta.min = PyInt(default_sint_min(meta.width))
                  /\ meta.max = PyInt(default_sint_max(meta.width))
               THEN <<>>
               ELSE <<RangeCheck(sig.name, meta.min, meta.max, long)>>
          [] meta.kind \in {"BufMeta", "BitsetMeta"} ->
               IF (meta.width = 64 /\ jtype = "long") \/ (meta.width = 32 /\ jtype = "int")
               THEN <<>>
               ELSE <<RangeCheck(sig.name, PyInt(0),
                                 PyInt(default_uint_max(DType_bit_length(sig.dtype))), long)>>
          [] meta.kind = "FloatMeta" ->
               (IF meta.min.some /\ meta.max.some
                THEN <<RangeCheck(sig.name, meta.min.v, meta.max.v, FALSE)>>
                ELSE (IF meta.min.some THEN <<MinCheck(sig.name, meta.min.v)>> ELSE <<>>)
                     \o (IF meta.max.some THEN <<MaxCheck(sig.name, meta.max.v)>> ELSE <<>>))
               \o (IF ~meta.allow_nan_inf THEN <<FiniteCheck(sig.name, jtype)>> ELSE <<>>)
          [] meta.kind = "StructMeta" -> gen_sig_checks_each(sig, meta.signals)
          [] OTHER -> <<>>

\* what _render_sig returns: params, args, pack expressions and the offset
\* after the signal, or the exception
Rendered(param, arg, pack_expr, offset) ==
    [err |-> "none", param |-> param, arg |-> arg, pack_expr |-> pack_expr, offset |-> offset]
\* what two runs of rendered signals add up to
render_join(first, rest) ==
    IF rest.err # "none" THEN rest
    ELSE Rendered(first.param \o rest.param, first.arg \o rest.arg,
                  first.pack_expr \o rest.pack_expr, rest.offset)
RECURSIVE render_sig(_, _)
RECURSIVE render_sigs(_, _, _)
RECURSIVE render_rest(_, _, _)
\* a list of signals rendered one after the other from the given offset: the
\* loop of gen_sigs_pack (owner = <<>>) and that over the sub-signals of a
\* struct signal (owner = its name)
render_sigs(owner, signals, offset) ==
    IF signals = <<>> THEN Rendered(<<>>, <<>>, <<>>, offset)
    ELSE render_rest(render_sig([Head(signals) EXCEPT
                                    !.name = owner \o (IF owner = <<>> THEN @ ELSE <<@>>)],
                                offset),
                     owner, Tail(signals))
\* the signals after a rendered one, rendered from the offset it ends at
render_rest(first, owner, signals) ==
    IF first.err # "none" THEN first
    ELSE render_join(first, render_sigs(owner, signals, first.offset))
\* _render_sig(sig, offset)
render_sig(sig, offset) ==
    CASE sig.dtype.meta.kind = "PadMeta" ->
           Rendered(<<>>, <<>>, <<>>, offset + DType_bit_length(sig.dtype))
      [] sig.dtype.meta.kind = "StructMeta" ->
           render_sigs(sig.name, sig.dtype.meta.signals, offset)
      [] OTHER ->
           LET jtype == get_type_for_dtype(sig.dtype)
               canon == canonical_name(sig.dtype)
               pack  == jtype_to_long(sig.name, jtype, offset, DType_bit_length(sig.dtype))
           IN  IF canon.err # "none" THEN RaiseV("ValueError")
               ELSE IF pack.err # "none" THEN pack
               ELSE Rendered(<<[name |-> sig.name, comment |-> sig.comment, dtype |-> canon.val]>>,
                             <<[jtype |-> jtype, name |-> sig.name]>>,
                             <<pack.val>>, offset + DType_bit_length(sig.dtype))

\* the name of a top-level signal as a path
Named(signals) == [k \in 1..Len(signals) |-> [signals[k] EXCEPT !.name = <<@>>]]
RECURSIVE all_sig_checks(_)
\* for sig in signals: checks.extend(gen_sig_checks(sig))
all_sig_checks(signals) ==
    IF signals = <<>> THEN <<>>
    ELSE gen_sig_checks(Head(signals)) \o all_sig_checks(Tail(signals))
\* the construct function written from the rendered signals r and the checks
construct_of(name, compound_type, r, checks) ==
    IF r.err # "none" THEN r
    ELSE Ret([construct |-> name, compound_type |-> compound_type, params |-> r.param,
              args |-> r.arg,
              pack_exprs |-> IF r.pack_expr = <<>> THEN <<[op |-> "0"]>> ELSE r.pack_expr,
              checks |-> checks])
\* gen_sigs_pack(name, signals, compound_type, check_bounds): the generated
\* construct function
gen_sigs_pack(name, signals, compound_type, check_bounds) ==
    construct_of(name, compound_type, render_sigs(<<>>, Named(signals), 0),
                 IF check_bounds THEN all_sig_checks(Named(signals)) ELSE <<>>)

\* what gen_sig_extract returns: the extract functions and the offset after
\* the signal, or the exception
Extracted(v, offset) == [err |-> "none", val |-> v, offset |-> offset]
\* what two runs of extract functions add up to
extract_join(first, rest) ==
    IF rest.err # "none" THEN rest ELSE Extracted(first.val \o rest.val, rest.offset)
RECURSIVE gen_sig_extract(_, _, _)
RECURSIVE gen_sig_extracts(_, _, _)
RECURSIVE extract_rest(_, _, _)
\* signals extracted one after the other from the given offset
gen_sig_extracts(signals, prefix, offset) ==
    IF signals = <<>> THEN Extracted(<<>>, offset)
    ELSE extract_rest(gen_sig_extract(Head(signals), prefix, offset), Tail(signals), prefix)
\* the signals after an extracted one, extracted from the offset it ends at
extract_rest(first, signals, prefix) ==
    IF first.err # "none" THEN first
    ELSE extract_join(first, gen_sig_extracts(signals, prefix, first.offset))
\* gen_sig_extract(sig, prefix, offset): a function is held as its name, its
\* return type and the kind, width and offset its body is written from
gen_sig_extract(sig, prefix, offset) ==
    LET meta == sig.dtype.meta
        fn(width) == [extract |-> prefix \o <<sig.name>>, jtype |-> get_type_for_dtype(sig.dtype),
                      kind |-> meta.kind, offset |-> offset, width |-> width]
    IN  CASE meta.kind \in {"UIntMeta", "EnumMeta", "BufMeta", "BitsetMeta", "SIntMeta"} ->
               Extracted(<<fn(meta.width)>>, offset + meta.width)
          [] meta.kind = "FloatMeta" ->
               IF meta.width \notin {24, 32, 64} THEN RaiseV("ValueError")
               ELSE Extracted(<<fn(meta.width)>>, offset + meta.width)
          [] meta.kind = "BoolMeta" -> Extracted(<<fn(1)>>, offset + 1)
          [] meta.kind = "PadMeta" -> Extracted(<<>>, offset + meta.width)
          [] meta.kind = "StructMeta" ->
               gen_sig_extracts(meta.signals, prefix \o <<sig.name>>, offset)
          [] OTHER -> Extracted(<<>>, offset)

\* the members gen_msg writes for one message: its dlc constants
DlcMembers(name, msg) ==
    IF msg.min_length = msg.max_length THEN <<[kDlc |-> name, dlc |-> msg.min_length]>>
    ELSE <<[kDlcMin |-> name, dlc |-> msg.min_length], [kDlcMax |-> name, dlc |-> msg.max_length]>>
\* the members of one message ahead of those of the messages after it
java_msg_member(name, msg, ext, pack, rest) ==
    IF ext.err # "none" THEN RaiseV(ext.err)
    ELSE IF pack.err # "none" THEN RaiseV(pack.err)
    ELSE IF rest.err # "none" THEN rest
    ELSE Ret(<<[name |-> name, id |-> msg.id, extracts |-> ext.val,
                construct |-> pack.val, dlcs |-> DlcMembers(name, msg)]>> \o rest.val)
RECURSIVE java_msg_members(_)
\* the members of the messages in the order given: per message its constant,
\* its extract functions, its construct function and its dlc constants
java_msg_members(messages) ==
    IF messages = <<>> THEN Ret(<<>>)
    ELSE LET name == Head(messages)[1]
             msg  == Head(messages)[2]
         IN  java_msg_member(name, msg, gen_sig_extracts(msg.signals, <<name>>, 0),
                             gen_sigs_pack(name, msg.signals, "message", FALSE),
                             java_msg_members(Tail(messages)))
\* java.gen_msg(dev): the class Msg; every loop of gen_msg walks
\* rsort_by_ent_id(dev.messages) and skips the messages that are not public
java_gen_msg(dev) ==
    LET sorted == rsort_by_ent_id(dev.messages)
    IN  java_msg_members(filtered(sorted, PublicOf(sorted)))

\* Signal.from_stg(name, stg)
Signal_from_stg(name, stg) == ParserSignal(name, stg.comment, stg.dtype, FALSE)
\* the members of one setting ahead of those of the settings after it
java_stg_member(name, stg, ext, pack, rest) ==
    IF ext.err # "none" THEN RaiseV(ext.err)
    ELSE IF pack.err # "none" THEN RaiseV(pack.err)
    ELSE IF rest.err # "none" THEN rest
    ELSE Ret(<<[name |-> name, id |-> stg.id, extracts |-> ext.val, construct |-> pack.val]>>
             \o rest.val)
RECURSIVE java_stg_members(_)
\* the members of the settings in the order given
java_stg_members(settings) ==
    IF settings = <<>> THEN Ret(<<>>)
    ELSE LET name == Head(settings)[1]
             stg  == Head(settings)[2]
             sigs == IF stg.dtype.meta.kind = "StructMeta" THEN stg.dtype.meta.signals
                     ELSE <<Signal_from_stg(name, stg)>>
         IN  java_stg_member(name, stg, gen_sig_extract(Signal_from_stg(name, stg), <<>>, 0),
                             gen_sigs_pack(name, sigs, "setting", TRUE),
                             java_stg_members(Tail(settings)))
\* stg.vdep_setting and stg.vendordep and stg.readable
Fetched(settings) ==
    [i \in 1..Len(settings) |->
        settings[i][2].vdep_setting /\ settings[i][2].vendordep /\ settings[i][2].readable]
\* one stg.put(...) line ahead of those of the settings after it
put_default(name, bits, rest) ==
    IF bits.err # "none" THEN bits
    ELSE IF bits.val.t = "None" THEN RaiseV("TypeError")
    ELSE IF bits.val.t = "float" THEN RaiseV("ValueError")
    ELSE IF rest.err # "none" THEN rest
    ELSE Ret(<<[put |-> name, value |-> bits.val]>> \o rest.val)
RECURSIVE gen_vdep_default_stg(_)
\* gen_vdep_default_stg(dev): stg.put(name, 0x{default_value_as_bits():x}L)
\* for the settings handed in; format raises on None and on a float
gen_vdep_default_stg(settings) ==
    IF settings = <<>> THEN Ret(<<>>)
    ELSE put_default(Head(settings)[1], default_value_as_bits(Head(settings)[2].dtype),
                     gen_vdep_default_stg(Tail(settings)))
\* the class Stg written from its parts
class_Stg(members, fetched, defaults) ==
    IF members.err # "none" THEN members
    ELSE IF defaults.err # "none" THEN defaults
    ELSE Ret([members |-> members.val,
              settingsAddresses |-> [i \in 1..Len(fetched) |-> fetched[i][1]],
              defaultSettings |-> defaults.val])
\* java.gen_stg(dev): the class Stg
java_gen_stg(dev) ==
    LET sorted   == rsort_by_ent_id(dev.settings)
        fetched  == filtered(dev.settings, Fetched(dev.settings))
    IN  class_Stg(java_stg_members(filtered(sorted, [i \in 1..Len(sorted) |-> sorted[i][2].vendordep])),
                  fetched, gen_vdep_default_stg(fetched))

\* ------------------------------------------------------------------------
\* Reference documents (rst.py).  A cell of a table is the pair of the format
\* it is written with and the value formatted.
\* ------------------------------------------------------------------------
Row(label, fmt, v) == [label |-> label, fmt |-> fmt, v |-> v]
\* an optional int as the Python value it is (None when absent)
PyOpt(o) == IF o.some THEN PyInt(o.v) ELSE PyNone
\* x or d, for an optional int x
or_else(o, d) == IF o.some /\ o.v # 0 THEN o.v ELSE d
Direction == ("Device" :> "Device -\\> robot") @@ ("Host" :> "Robot -\\> device") @@ ("Both" :> "Bidirectional")

\* render_msg_table(msg, dev): the rows of the table; frame_period_setting
\* is None in every message spec of the model
render_msg_table(msg, dev) ==
    LET given      == msg.min_length.some \/ msg.max_length.some
        min_length == IF given THEN PyInt(or_else(msg.min_length, 0)) ELSE PyOpt(msg.min_length)
        max_length == IF given THEN PyInt(or_else(msg.max_length, 8)) ELSE PyOpt(msg.max_length)
        lengths    == IF min_length # max_length
                      THEN <<Row("Minimum message length", "{} bytes", min_length),
                             Row("Maximum message length", "{} bytes", max_length)>>
                      ELSE IF msg.length.some
                      THEN <<Row("Message length", "{} bytes", PyInt(msg.length.v))>>
                      ELSE <<Row("Message length", "{} bytes", PyOpt(msg.min_length))>>
    IN  IF msg.source \notin DOMAIN Source_from_str THEN RaiseV("KeyError")
        ELSE Ret(<<Row("API Index", "hex", PyInt(msg.id))>> \o lengths
                 \o <<Row("Transmission direction", "{}", PyStr(Direction[Source_from_str[msg.source]]))>>)

\* ------------------------------------------------------------------------
\* Inputs drawn for the calls
\* ------------------------------------------------------------------------
\* the float denoted by four little-endian binary32 bytes
F32(b) == unpack_f(from_bytes(b))
FZero == F32(<<0, 0, 0, 0>>)
FOne == F32(<<0, 0, 128, 63>>)
FFive == F32(<<0, 0, 160, 64>>)
FTen == F32(<<0, 0, 32, 65>>)
FEleven == F32(<<0, 0, 48, 65>>)
FMinusOne == F32(<<0, 0, 128, 191>>)
\* 3.1415927 (binary32 0x40490FDB: low mantissa byte in use)
FPi == F32(<<219, 15, 73, 64>>)
\* 2.3509887e-38 (binary32 0x00FFFFFF: upper 8 bits of the pattern are zero)
FTiny == F32(<<255, 255, 255, 0>>)
FInf == F32(<<0, 0, 128, 127>>)
FNaN == F32(<<0, 0, 192, 127>>)
\* 0.1: not representable in binary32 (binary64 0x3FB999999999999A)
FTenth == from_bytes(<<154, 153, 153, 153>>) \cup Shl(from_bytes(<<153, 153, 185, 63>>), 32)
DrawnFloats == {FZero, FOne, FFive, FTen, FEleven, FMinusOne, FPi, FTiny, FInf, FNaN, FTenth}

\* byte sequences of every length up to MaxBufLen
DrawnBuffers ==
    UNION {{[k \in 1..n |-> 255], [k \in 1..n |-> k], [k \in 1..n |-> IF k = n THEN 1 ELSE 0]}
           : n \in 0..MaxBufLen}

RECURSIVE DrawnValues(_, _)
\* values drawn for a signal; few = TRUE draws the smaller set used for
\* the fields of message instances
DrawnValues(meta, few) ==
    CASE meta.kind = "UInt" ->
           LET lo == unwrap_or(meta.min, 0)
               hi == unwrap_or(meta.max, default_uint_max(meta.width))
           IN  {PyInt(v) : v \in IF few THEN {lo, hi, hi + 1}
                                 ELSE {lo - 1, lo, lo + 1, hi - 1, hi, hi + 1, -1, 0,
                                       2^meta.width - 1, 2^meta.width}}
      [] meta.kind = "SInt" ->
           LET lo == unwrap_or(meta.min, default_sint_min(meta.width))
               hi == unwrap_or(meta.max, default_sint_max(meta.width))
           IN  {PyInt(v) : v \in IF few THEN {lo, -1, hi, hi + 1}
                                 ELSE {lo - 1, lo, lo + 1, -1, 0, 1, hi - 1, hi, hi + 1,
                                       -(2^(meta.width - 1)) - 1, -(2^(meta.width - 1)),
                                       2^(meta.width - 1) - 1, 2^(meta.width - 1)}}
      [] meta.kind = "Boolean" -> {PyInt(0), PyInt(1)}
      [] meta.kind = "Float" ->
           {PyFloat(d) : d \in IF few THEN {FOne, FPi, FTenth, FNaN} ELSE DrawnFloats}
      [] meta.kind = "Buffer" -> {PyBytes(b) : b \in DrawnBuffers}
      [] meta.kind \in {"Bitset", "Enum"} ->
           {PyInt(v) : v \in IF few THEN {0, 2^meta.width - 1, 2^meta.width}
                             ELSE {0, 1, 2^meta.width - 1, 2^meta.width, 2^meta.width + 1}}
      [] meta.kind = "Struct" ->
           LET n     == Len(meta.dtype)
               names == {meta.dtype[k].name : k \in 1..n}
               idx(nm) == CHOOSE k \in 1..n : meta.dtype[k].name = nm
               vals(nm) == DrawnValues(meta.dtype[idx(nm)].sig.meta, TRUE)
           IN  {PyObj(f) : f \in {g \in [names -> UNION {vals(nm) : nm \in names}] :
                                     \A nm \in names : g[nm] \in vals(nm)}}

\* values drawn for a signal, None included when it is optional
DrawnFor(sig, few) == DrawnValues(sig.meta, few) \cup (IF sig.optional THEN {PyNone} ELSE {})

Offsets == {0, 3, 8, 34, 56}
FloatBounds == {<<None, None>>, <<Some(FZero), None>>, <<Some(FZero), Some(FTen)>>, <<None, Some(FTen)>>}
MetaInputs ==
    UNION {{UInt(w, None, None), UInt(w, Some(0), Some(2^w - 1)), UInt(w, Some(1), Some(2^w - 2))}
           : w \in {1, 2, 8, 14}}
    \cup UNION {{SInt(w, None, None), SInt(w, Some(-(2^(w - 1))), Some(2^(w - 1) - 1)),
                 SInt(w, Some(1 - 2^(w - 1)), Some(2^(w - 1) - 2))}
                : w \in {2, 8, 16}}
    \cup {Float(w, b[1], b[2], a) : w \in {16, 24, 32, 64}, b \in FloatBounds, a \in BOOLEAN}
    \cup {Buffer(w) : w \in {4, 8, 16, 48}}
    \cup {Boolean}
    \cup {Bitset(w) : w \in {1, 4, 8}}
    \cup {Enum(w) : w \in {1, 4, 8}}
    \cup {Struct(SettingFlags), Struct(TestSettingFlags), Struct(Yaw)}
SignalInputs == {Signal(o, m, opt) : o \in Offsets, m \in MetaInputs, opt \in BOOLEAN}
MaxIdxInputs == {0, 8, 32, 64}

\* A message class with two optional signals, drawn to exercise to_wrapper
\* with an optional that is populated while a later one is not (no class of
\* the repository declares more than one optional signal).
OptionalPair ==
    MessageClass("OptionalPair", MessageMeta(7, 2, 1, 8),
        <<Field("control_flag", Signal(0, Enum(8), FALSE)),
          Field("setting_index", Signal(8, Enum(8), TRUE)),
          Field("count", Signal(16, UInt(8, Some(0), Some(255)), TRUE))>>)
MessageClasses == {SettingCommand, SetSetting, Status, Enumerate, VelocityOutput, YawOutput,
                   TestSetSetting, OptionalPair}
\* instances of a message class: every combination of the drawn field values
Instances(cls) ==
    LET n     == Len(cls.hints)
        names == {cls.hints[k].name : k \in 1..n}
        idx(nm) == CHOOSE k \in 1..n : cls.hints[k].name = nm
        vals(nm) == DrawnFor(cls.hints[idx(nm)].sig, TRUE)
    IN  {[cls |-> cls, f |-> f] : f \in {g \in [names -> UNION {vals(nm) : nm \in names}] :
                                            \A nm \in names : g[nm] \in vals(nm)}}
DevIds == {0, 3, 63} \cup (64..MaxDevId)
DeviceTypes == {7, 31}
ApiIndexes == {0, 2, 31, 255} \cup (256..MaxApiIndex)

\* the fields of the 29-bit arbitration id
DevTypeField == 0..31
DevIdField == 0..63
MsgIdField == 0..31
\* a message class without signals, of the given device type and message id
AddressedClass(dt, id) == MessageClass("Message", MessageMeta(dt, id, 0, 8), <<>>)
\* device types drawn for the sender: both ends of the field, the
\* Canandmag's own type and the values around the middle bit
SentDevTypes == {0, 1, 7, 8, 15, 16, 30, 31}
AddressedInstances ==
    {[cls |-> AddressedClass(dt, id), f |-> <<>>] : dt \in SentDevTypes, id \in MsgIdField}

\* frames received from the bus: every combination of the drawn address
\* fields, payloads and lengths (the last payload has every bit but bit 47
\* set: the 32-bit timestamp of RawPositionOutput stays below 2^31)
FrameApiIndexes == ApiIndexes \cup {3, 5, 14, 29, 30, 1023}
FramePayloads == {{}, from_bytes(<<2, 6>>), from_bytes(<<255, 255, 255, 255, 255, 127, 255, 255>>)}
FrameArbId(dt, vendor, api, id) ==
    ValOf(BitOr(BitOr(Shl(BitsOf(dt), 24), Shl(BitsOf(vendor), 16)),
                BitOr(Shl(BitsOf(api), 6), BitsOf(id))))
DrawnFrames ==
    {MessageWrapper(data, dlc, FrameArbId(dt, vendor, api, id)) :
        data \in FramePayloads, dlc \in {0, 1, 8}, dt \in {6, 7}, vendor \in {14, 15, 30},
        api \in FrameApiIndexes, id \in {0, 3, 63}}

\* setting instances and the arguments of BaseSetting.to_wrapper
SettingClasses == {CanId, Name0, StatusFramePeriod, InvertDirection}
SettingInstances ==
    UNION {{[cls |-> c, f |-> [value |-> v]] : v \in DrawnValues(c.hints[1].sig.meta, TRUE)}
           : c \in SettingClasses}
SettingArgs == [ephemeral : {0, 1}, synch_hold : {0, 1}, synch_cnt : {0, 3, 15, 16}]

\* ------------------------------------------------------------------------
\* Inputs drawn for the parser: a directory of three spec files a.toml,
\* b.toml, c.toml.  Every entry carries the file it was written in (its
\* comment) and an id that differs from file to file.  The enums of b.toml
\* name a default, ON, that is not one of their entries.
\* ------------------------------------------------------------------------
SpecNames == <<"A", "B", "C">>
SpecArchs == <<"stm32", "esp32", "rp2040">>
MsgKeys == <<"M1", "M2">>
SettingKeys == <<"S1", "S2">>
TypeKeys == <<"T1", "T2">>
CommandKeys == <<"K1", "K2">>
EnumKeys == <<"MODE", "SETTING", "SETTING_COMMAND">>

\* the map with the keys names[s], s \in slots, and the values val(s)
SlotMap(names, slots, val(_)) ==
    [k \in {names[s] : s \in slots} |-> val(CHOOSE s \in slots : names[s] = k)]

\* the DeviceSpec of file number fi, with the given base list, the entries
\* slots in msg, settings, types and setting_commands, and the enums eslots
DrawnSpec(fi, base, slots, eslots) ==
    LET file == SpecNames[fi]
        msg(s) == DeviceMessageSpec(10 * fi + s, Some(0), Some(8), None, "device", TRUE, file, <<>>)
        stg(s) == DeviceSettingSpec(20 * fi + s, file, <<"uint", 8>>, None)
        typ(s) == TypeSpec("uint", 8, None, None, FALSE, Some(PyInt(fi)), <<1, 1>>, <<>>, <<>>)
        cmd(s) == SettingCommandSpec(30 * fi + s, FALSE, file)
        enm(s) == EnumSpec(file, "uint", 4, FALSE, "ON",
                           (IF fi = 2 THEN "OFF" ELSE "ON") :> EnumEntrySpec(fi, file))
    IN  DeviceSpec(file, base, SpecArchs[fi], TRUE, fi, 3 + fi,
                   SlotMap(MsgKeys, slots, msg), SlotMap(SettingKeys, slots, stg),
                   SlotMap(TypeKeys, slots, typ), SlotMap(EnumKeys, eslots, enm),
                   SlotMap(CommandKeys, slots, cmd),
                   VendordepSpec(file, file))

\* base lists: none, one, two in either order, the file itself, a file that
\* does not exist; b.toml may name c.toml or a.toml
DrawnBasesA == {<<>>, <<"B">>, <<"C">>, <<"B", "C">>, <<"C", "B">>, <<"A">>, <<"X">>}
DrawnBasesB == {<<>>, <<"C">>, <<"A">>}
DrawnSlots == SUBSET {1, 2}
DrawnEnumSlots == {{}, {1}, {1, 2}, {3}}
DrawnDirs ==
    { ("a" :> DrawnSpec(1, ba, sa, ea)) @@ ("b" :> DrawnSpec(2, bb, sb, eb))
        @@ ("c" :> DrawnSpec(3, <<>>, sc, {1}))
      : ba \in DrawnBasesA, bb \in DrawnBasesB, sa \in DrawnSlots, sb \in DrawnSlots,
        sc \in {{}, {1, 2}}, ea \in DrawnEnumSlots \ {{3}}, eb \in DrawnEnumSlots \ {{1}} }

\* ------------------------------------------------------------------------
\* Inputs drawn for lowering: a spec with one named type of every kind, an
\* alias of each, and enums
\* ------------------------------------------------------------------------
\* an enum with the entries OFF = 2 and ON = 5 and the given default name
DrawnEnum(default_value) ==
    EnumSpec("", "uint", 4, TRUE, default_value,
             ("OFF" :> EnumEntrySpec(2, "off")) @@ ("ON" :> EnumEntrySpec(5, "on")))
DrawnEnumDefaults == {"", "ON", "BOGUS"}
\* the default_value of a signal of enum dtype: absent, empty, an entry, no entry
DrawnNameDefaults == {None, Some(PyStr("")), Some(PyStr("OFF")), Some(PyStr("BOGUS"))}
\* the default_value of a named type, of an alias, and of a signal of numeric dtype
DrawnTypeDefaults == {None, Some(PyInt(3)), Some(PyFloat(FFive))}
DrawnAliasDefaults == {None, Some(PyInt(4))}
DrawnSignalDefaults == {None, Some(PyInt(0)), Some(PyInt(6))}

Plain(btype, bits, default_value) ==
    TypeSpec(btype, bits, None, None, FALSE, default_value, <<1, 1>>, <<>>, <<>>)
\* the types of the spec: td is the default of the named types, ad of the aliases
DrawnTypes(td, ad) ==
    ("count" :> Plain("uint", 8, td)) @@ ("delta" :> Plain("sint", 8, td))
    @@ ("ratio" :> Plain("float", 32, td)) @@ ("blob" :> Plain("buf", 16, td))
    @@ ("flag" :> Plain("bool", 1, td)) @@ ("gap" :> Plain("pad", 4, None))
    @@ ("faults" :> TypeSpec("bitset", 4, None, None, FALSE, td, <<1, 1>>, <<>>,
                             <<BitsetFlagSpec("f0", ""), BitsetFlagSpec("f1", ""),
                               BitsetFlagSpec("f2", "")>>))
    @@ ("pair" :> TypeSpec("struct", 12, None, None, FALSE, None, <<1, 1>>,
                           <<MessageSignalSpec("lo", "", <<"count">>, FALSE, None),
                             MessageSignalSpec("hi", "", <<"uint", 4>>, FALSE, Some(PyInt(1)))>>,
                           <<>>))
    @@ ("count_alias" :> Plain("count", 8, ad)) @@ ("delta_alias" :> Plain("delta", 8, ad))
    @@ ("ratio_alias" :> Plain("ratio", 32, ad)) @@ ("blob_alias" :> Plain("blob", 16, ad))
    @@ ("flag_alias" :> Plain("flag", 1, ad)) @@ ("faults_alias" :> Plain("faults", 4, ad))
    @@ ("count_alias2" :> Plain("count_alias", 8, None))
    @@ ("dangling" :> Plain("nowhere", 8, None))
DrawnEnumNames == {"MODE", "SETTING", "SETTING_COMMAND"}
DrawnDev(td, ad, ed) ==
    DeviceSpec("A", <<>>, "stm32", TRUE, 1, 4, <<>>, <<>>, DrawnTypes(td, ad),
               [n \in DrawnEnumNames |-> DrawnEnum(ed)], <<>>, VendordepSpec("A", "A"))

\* dtype names, split at ':'
NamedDTypes == {<<n>> : n \in DOMAIN DrawnTypes(None, None)}
EnumDTypes == {<<"enum", n>> : n \in DrawnEnumNames}
InlineDTypes ==
    {<<"uint", 8>>, <<"sint", 8>>, <<"float", 32>>, <<"buf", 16>>, <<"pad", 4>>, <<"bool">>,
     <<"none">>, <<"setting_data">>, <<"missing">>, <<"enum", "MISSING">>}

\* the calls impl_DType_from_sig(dev, dtype_name, default_value)
DrawnSigLowerings ==
    { [fn |-> "impl_DType_from_sig", dev |-> DrawnDev(td, ad, "ON"), dtype_name |-> n,
       default_value |-> sd]
      : td \in DrawnTypeDefaults, ad \in DrawnAliasDefaults, n \in NamedDTypes,
        sd \in DrawnSignalDefaults }
    \cup
    { [fn |-> "impl_DType_from_sig", dev |-> DrawnDev(None, None, "ON"), dtype_name |-> n,
       default_value |-> sd]
      : n \in InlineDTypes, sd \in DrawnSignalDefaults }
    \cup
    { [fn |-> "impl_DType_from_sig", dev |-> DrawnDev(None, None, ed), dtype_name |-> n,
       default_value |-> sd]
      : ed \in DrawnEnumDefaults, n \in EnumDTypes, sd \in DrawnNameDefaults }
\* message specs with length, min_length and max_length each absent or 0..8
DrawnLengths == {None} \cup {Some(n) : n \in 0..8}
DrawnMessageSpecs ==
    { DeviceMessageSpec(5, mn, mx, ln, "device", TRUE, "", <<>>)
      : mn \in DrawnLengths, mx \in DrawnLengths, ln \in DrawnLengths }
\* the calls impl_Message_from(dm, dev) and render_msg_table(msg, dev)
DrawnMessageLowerings ==
    { [fn |-> "impl_Message_from", dm |-> dm, dev |-> DrawnDev(None, None, "ON")]
      : dm \in DrawnMessageSpecs }
\* the calls impl_EnumMeta_from(name, entry, default_value)
DrawnEnumLowerings ==
    { [fn |-> "impl_EnumMeta_from", name |-> n, entry |-> DrawnEnum(ed), default_value |-> sd]
      : n \in DrawnEnumNames, ed \in DrawnEnumDefaults, sd \in DrawnNameDefaults }

\* ------------------------------------------------------------------------
\* Inputs drawn for the generators: resolved specs whose msg, settings and
\* setting_commands are dicts in insertion order
\* ------------------------------------------------------------------------
\* the types of the lowering specs and a struct with a negative signed default
GenTypes ==
    DrawnTypes(None, None)
    @@ ("span" :> TypeSpec("struct", 12, None, None, FALSE, None, <<1, 1>>,
                           <<MessageSignalSpec("lo", "", <<"sint", 8>>, FALSE, Some(PyInt(-3))),
                             MessageSignalSpec("hi", "", <<"uint", 4>>, FALSE, Some(PyInt(1)))>>,
                           <<>>))
GenSpec(msg, settings, setting_commands) ==
    [DrawnDev(None, None, "ON") EXCEPT !.types = GenTypes, !.msg = msg, !.settings = settings,
                                       !.setting_commands = setting_commands]
\* a setting with the flags the generators read
GenSetting(id, dtype, default_value, shown) ==
    [id |-> id, comment |-> "", dtype |-> dtype, default_value |-> default_value,
     is_public |-> shown, vendordep |-> shown, vdep_setting |-> TRUE, readable |-> TRUE]

\* dtype names of the signals of a message
GenPool ==
    {<<"uint", 8>>, <<"sint", 8>>, <<"bool">>, <<"pad", 4>>, <<"float", 32>>, <<"float", 24>>,
     <<"float", 16>>, <<"faults">>, <<"pair">>, <<"enum", "MODE">>, <<"buf", 16>>, <<"none">>}
GenPoolOfThree == {<<"uint", 8>>, <<"pad", 4>>, <<"pair">>}
SigNames == <<"s1", "s2", "s3">>
GenSignals(dtypes) ==
    [k \in 1..Len(dtypes) |-> MessageSignalSpec(SigNames[k], "", dtypes[k], FALSE, None)]
GenSignalLists ==
    {<<>>} \cup {<<a>> : a \in GenPool} \cup {<<a, b>> : a \in GenPool, b \in GenPool}
    \cup {<<a, b, c>> : a \in GenPoolOfThree, b \in GenPoolOfThree, c \in GenPoolOfThree}
\* messages of one byte and of the default length of up to eight
GenMessages ==
    { DeviceMessageSpec(5, None, mx, None, "device", TRUE, "", GenSignals(l))
      : l \in GenSignalLists, mx \in {None, Some(1)} }
GenDefaults == {None, Some(PyInt(6)), Some(PyInt(-3)), Some(PyFloat(FFive))}
GenSettings ==
    { GenSetting(7, n, d, TRUE)
      : n \in GenPool \cup {<<"span">>, <<"count">>, <<"delta">>, <<"flag">>}, d \in GenDefaults }
\* specs with one message and one setting
GenSignalDevs ==
    { GenSpec(<< <<"M", m>> >>, << <<"S", GenSetting(7, <<"uint", 8>>, None, TRUE)>> >>, <<>>)
      : m \in GenMessages }
GenSettingDevs ==
    { GenSpec(<< <<"M", DeviceMessageSpec(5, None, None, None, "device", TRUE, "", <<>>)>> >>,
              << <<"S", s>> >>, <<>>)
      : s \in GenSettings }
\* specs with three messages, two settings and two setting commands whose ids
\* are equal or differ either way, each message and setting shown or not
GenIds == {1, 2}
GenOrderDevs ==
    { GenSpec([k \in 1..3 |-> <<<<"M1", "M2", "M3">>[k],
                                DeviceMessageSpec(mi[k], None, None, None, "device", mp[k], "", <<>>)>>],
              [k \in 1..2 |-> <<<<"S1", "S2">>[k], GenSetting(si[k], <<"uint", 8>>, None, sp[k])>>],
              [k \in 1..2 |-> <<<<"C1", "C2">>[k], SettingCommandSpec(si[k], FALSE, "")>>])
      : mi \in [1..3 -> GenIds], mp \in [1..3 -> BOOLEAN],
        si \in [1..2 -> GenIds], sp \in [1..2 -> BOOLEAN] }
GenDevs == GenSignalDevs \cup GenSettingDevs \cup GenOrderDevs

\* ------------------------------------------------------------------------
\* State
\* ------------------------------------------------------------------------
VARIABLES
    call,        \* which call is exercised: "Signal", "Message" or "CANDevice"
    sig,         \* the Signal
    value,       \* the value handed to Signal.encode
    encoded,     \* what Signal.encode returned or raised
    max_idx,     \* the max_idx handed to Signal.decode
    decoded,     \* what Signal.decode returned or raised
    message,     \* the BaseMessage instance
    dev_id,      \* the device id handed to to_wrapper
    device_type, \* the device_type argument of to_wrapper (None by default)
    wrapper,     \* what to_wrapper returned or raised
    received,    \* what from_wrapper returned or raised
    device,      \* the CANDevice: [device_type, dev_id]
    api_index,   \* the argument of CANDevice.addr
    address,     \* what CANDevice.addr returned (-1 before the call)
    bdevice,     \* the BaseDevice subclass decode_msg_generic is called on
    routed,      \* what decode_msg_generic returned or raised
    setting,     \* the BaseSetting instance
    stg_args,    \* ephemeral, synch_hold, synch_cnt handed to BaseSetting.to_wrapper
    stg_wrapper, \* what BaseSetting.to_wrapper returned or raised
    files,       \* the spec directory: file name -> DeviceSpec
    root,        \* the name of the spec handed to parse_spec
    resolved,    \* what parse_spec returned or raised
    lowering,    \* the arguments of a lowering call
    lowered,     \* what the lowering call returned or raised
    emitted,     \* what a generator emitted for the call
    fetching,    \* the BaseSetting class handed to CANDevice.fetch_setting
    pc,          \* where fetch_setting stands
    bus,         \* the frames that are still to arrive on the bus, in order
    sent,        \* the frames written to the bus with bus.send, in order
    consumed,    \* the frames bus.recv has returned, in order
    waits,       \* how many times bus.recv has returned None
    fetched      \* what fetch_setting returned or raised

deviceVars == <<bdevice, routed, setting, stg_args, stg_wrapper>>
parserVars == <<files, root, resolved, lowering, lowered, emitted>>
busVars == <<fetching, pc, bus, sent, consumed, waits, fetched>>
vars == <<call, sig, value, encoded, max_idx, decoded, message, dev_id, device_type,
          wrapper, received, device, api_index, address, deviceVars, parserVars, busVars>>

NoSignal == Signal(0, Boolean, FALSE)
NoMessage == [cls |-> MessageClass("", MessageMeta(0, 0, 0, 0), <<>>), f |-> <<>>]
NoDevice == [device_type |-> 0, dev_id |-> 0]
NoBaseDevice == BaseDevice("", 0, <<>>)
NoSetting == [cls |-> SettingClass("", SettingMeta(0, NoMessage.cls, NoMessage.cls, <<>>), <<>>), f |-> <<>>]
NoArgs == [ephemeral |-> 0, synch_hold |-> 0, synch_cnt |-> 0]
PendingR == [err |-> "pending"]
NoLower == [fn |-> ""]

\* no BaseDevice / BaseSetting call is exercised
IdleDevice ==
    /\ bdevice = NoBaseDevice /\ routed = PendingM
    /\ setting = NoSetting /\ stg_args = NoArgs /\ stg_wrapper = PendingS
\* no CANDevice.fetch_setting call is exercised
IdleBus ==
    /\ fetching = NoSetting.cls /\ pc = "idle" /\ bus = <<>> /\ sent = <<>>
    /\ consumed = <<>> /\ waits = 0 /\ fetched = PendingV
\* no parser call is exercised
IdleParser ==
    /\ files = <<>> /\ root = "" /\ resolved = PendingR
    /\ lowering = NoLower /\ lowered = PendingR /\ emitted = PendingR

InitSignal ==
    /\ call = "Signal"
    /\ sig \in SignalInputs
    /\ value \in DrawnFor(sig, FALSE)
    /\ max_idx \in MaxIdxInputs
    /\ message = NoMessage /\ dev_id = 0 /\ device_type = None
    /\ device = NoDevice /\ api_index = 0

InitMessage ==
    /\ call = "Message"
    /\ message \in UNION {Instances(cls) : cls \in MessageClasses}
    /\ dev_id \in DevIds
    /\ device_type \in {None} \cup {Some(t) : t \in DeviceTypes}
    /\ sig = NoSignal /\ value = PyNone /\ max_idx = 0
    /\ device = NoDevice /\ api_index = 0

InitCANDevice ==
    /\ call = "CANDevice"
    /\ device \in [device_type : DeviceTypes, dev_id : DevIds]
    /\ api_index \in ApiIndexes
    /\ sig = NoSignal /\ value = PyNone /\ max_idx = 0
    /\ message = NoMessage /\ dev_id = 0 /\ device_type = None

Init ==
    /\ (InitSignal \/ InitMessage \/ InitCANDevice)
    /\ encoded = Pending /\ decoded = PendingV
    /\ wrapper = PendingW /\ received = PendingM
    /\ address = -1
    /\ IdleDevice /\ IdleParser /\ IdleBus

\* sig.encode(name, value)
Encode ==
    /\ call = "Signal" /\ encoded = Pending
    /\ encoded' = Signal_encode(sig, value)
    /\ UNCHANGED <<call, sig, value, max_idx, decoded, message, dev_id, device_type,
                   wrapper, received, device, api_index, address>>
    /\ UNCHANGED <<busVars, deviceVars, parserVars>>

\* sig.decode(data, max_idx) on the payload just encoded
Decode ==
    /\ call = "Signal" /\ encoded.err = "none" /\ decoded = PendingV
    /\ decoded' = Signal_decode(sig, encoded.bits, max_idx)
    /\ UNCHANGED <<call, sig, value, encoded, max_idx, message, dev_id, device_type,
                   wrapper, received, device, api_index, address>>
    /\ UNCHANGED <<busVars, deviceVars, parserVars>>

\* message.to_wrapper(dev_id, device_type)
ToWrapper ==
    /\ call = "Message" /\ wrapper = PendingW
    /\ wrapper' = to_wrapper(message, dev_id, device_type)
    /\ UNCHANGED <<call, sig, value, encoded, max_idx, decoded, message, dev_id, device_type,
                   received, device, api_index, address>>
    /\ UNCHANGED <<busVars, deviceVars, parserVars>>

\* type(message).from_wrapper(wrapper)
FromWrapper ==
    /\ call = "Message" /\ wrapper.err = "none" /\ received = PendingM
    /\ received' = from_wrapper(message.cls, wrapper)
    /\ UNCHANGED <<call, sig, value, encoded, max_idx, decoded, message, dev_id, device_type,
                   wrapper, device, api_index, address>>
    /\ UNCHANGED <<busVars, deviceVars, parserVars>>

\* device.addr(api_index)
Addr ==
    /\ call = "CANDevice" /\ address = -1
    /\ address' = addr(device, api_index)
    /\ UNCHANGED <<call, sig, value, encoded, max_idx, decoded, message, dev_id, device_type,
                   wrapper, received, device, api_index>>
    /\ UNCHANGED <<busVars, deviceVars, parserVars>>

Next == Encode \/ Decode \/ ToWrapper \/ FromWrapper \/ Addr

Spec == Init /\ [][Next]_vars

\* ------------------------------------------------------------------------
\* BaseDevice / BaseSetting calls
\* ------------------------------------------------------------------------
IdleCodec ==
    /\ sig = NoSignal /\ value = PyNone /\ max_idx = 0
    /\ encoded = Pending /\ decoded = PendingV /\ received = PendingM
    /\ device = NoDevice /\ api_index = 0 /\ address = -1

\* a message about to be sent with to_wrapper(dev_id)
InitSend ==
    /\ call = "Message"
    /\ message \in AddressedInstances
    /\ dev_id \in DevIdField
    /\ device_type = None /\ wrapper = PendingW
    /\ bdevice = Canandmag
    /\ setting = NoSetting /\ stg_args = NoArgs

\* a frame received from the bus
InitRecv ==
    /\ call = "Frame"
    /\ wrapper \in DrawnFrames
    /\ bdevice = Canandmag
    /\ message = NoMessage /\ dev_id = 0 /\ device_type = None
    /\ setting = NoSetting /\ stg_args = NoArgs

\* a setting about to be written with BaseSetting.to_wrapper
InitSetting ==
    /\ call = "Setting"
    /\ setting \in SettingInstances
    /\ dev_id \in {0, 3, 63}
    /\ stg_args \in SettingArgs
    /\ message = NoMessage /\ device_type = None /\ wrapper = PendingW
    /\ bdevice = NoBaseDevice

InitDevice ==
    /\ (InitSend \/ InitRecv \/ InitSetting)
    /\ routed = PendingM /\ stg_wrapper = PendingS
    /\ IdleCodec /\ IdleParser /\ IdleBus

\* bdevice.decode_msg_generic(wrapper)
DecodeMsgGeneric ==
    /\ call \in {"Message", "Frame"} /\ wrapper.err = "none" /\ routed = PendingM
    /\ routed' = decode_msg_generic(bdevice, wrapper)
    /\ UNCHANGED <<call, sig, value, encoded, max_idx, decoded, message, dev_id, device_type,
                   wrapper, received, device, api_index, address>>
    /\ UNCHANGED <<busVars, bdevice, setting, stg_args, stg_wrapper, parserVars>>

\* setting.to_wrapper(dev_id, ephemeral, synch_hold, synch_cnt)
SettingToWrapper ==
    /\ call = "Setting" /\ stg_wrapper = PendingS
    /\ stg_wrapper' = BaseSetting_to_wrapper(setting, dev_id, stg_args.ephemeral,
                                             stg_args.synch_hold, stg_args.synch_cnt)
    /\ UNCHANGED <<call, sig, value, encoded, max_idx, decoded, message, dev_id, device_type,
                   wrapper, received, device, api_index, address>>
    /\ UNCHANGED <<busVars, bdevice, routed, setting, stg_args, parserVars>>

NextDevice == ToWrapper \/ DecodeMsgGeneric \/ SettingToWrapper

SpecDevice == InitDevice /\ [][NextDevice]_vars

\* ------------------------------------------------------------------------
\* Parser calls
\* ------------------------------------------------------------------------
\* a spec directory about to be resolved with parse_spec
InitParse ==
    /\ call = "parse_spec"
    /\ files \in DrawnDirs
    /\ root = "a"
    /\ lowering = NoLower

\* a lowering call on a drawn spec
InitLower ==
    /\ call = "lower"
    /\ lowering \in DrawnSigLowerings \cup DrawnEnumLowerings \cup DrawnMessageLowerings
    /\ files = <<>> /\ root = ""

InitParser ==
    /\ (InitParse \/ InitLower)
    /\ resolved = PendingR /\ lowered = PendingR /\ emitted = PendingR
    /\ message = NoMessage /\ dev_id = 0 /\ device_type = None /\ wrapper = PendingW
    /\ IdleCodec /\ IdleDevice /\ IdleBus

\* parse_spec(root)
ParseSpec ==
    /\ call = "parse_spec" /\ resolved.err = "pending"
    /\ resolved' = parse_spec(files, root)
    /\ UNCHANGED <<call, sig, value, encoded, max_idx, decoded, message, dev_id, device_type,
                   wrapper, received, device, api_index, address>>
    /\ UNCHANGED <<busVars, deviceVars, files, root, lowering, lowered, emitted>>

\* impl_Device_from(parse_spec(root)), the second half of parse_spec_to_device
ImplDeviceFrom ==
    /\ call = "parse_spec" /\ resolved.err = "none" /\ lowered.err = "pending"
    /\ lowered' = impl_Device_from(resolved.dev)
    /\ UNCHANGED <<call, sig, value, encoded, max_idx, decoded, message, dev_id, device_type,
                   wrapper, received, device, api_index, address>>
    /\ UNCHANGED <<busVars, deviceVars, files, root, resolved, lowering, emitted>>

\* impl_DType_from_sig(dev, dtype_name, default_value)
ImplDTypeFromSig ==
    /\ call = "lower" /\ lowering.fn = "impl_DType_from_sig" /\ lowered.err = "pending"
    /\ lowered' = impl_DType_from_sig(lowering.dev, lowering.dtype_name, lowering.default_value)
    /\ UNCHANGED <<call, sig, value, encoded, max_idx, decoded, message, dev_id, device_type,
                   wrapper, received, device, api_index, address>>
    /\ UNCHANGED <<busVars, deviceVars, files, root, resolved, lowering, emitted>>

\* impl_EnumMeta_from(name, entry, default_value)
ImplEnumMetaFrom ==
    /\ call = "lower" /\ lowering.fn = "impl_EnumMeta_from" /\ lowered.err = "pending"
    /\ lowered' = impl_EnumMeta_from(lowering.name, lowering.entry, lowering.default_value)
    /\ UNCHANGED <<call, sig, value, encoded, max_idx, decoded, message, dev_id, device_type,
                   wrapper, received, device, api_index, address>>
    /\ UNCHANGED <<busVars, deviceVars, files, root, resolved, lowering, emitted>>

\* impl_Message_from(dm, dev)
ImplMessageFrom ==
    /\ call = "lower" /\ lowering.fn = "impl_Message_from" /\ lowered.err = "pending"
    /\ lowered' = impl_Message_from(lowering.dm, lowering.dev)
    /\ UNCHANGED <<call, sig, value, encoded, max_idx, decoded, message, dev_id, device_type,
                   wrapper, received, device, api_index, address>>
    /\ UNCHANGED <<busVars, deviceVars, files, root, resolved, lowering, emitted>>

\* render_msg_table(dm, dev)
RenderMsgTable ==
    /\ call = "lower" /\ lowering.fn = "impl_Message_from" /\ emitted.err = "pending"
    /\ emitted' = render_msg_table(lowering.dm, lowering.dev)
    /\ UNCHANGED <<call, sig, value, encoded, max_idx, decoded, message, dev_id, device_type,
                   wrapper, received, device, api_index, address>>
    /\ UNCHANGED <<busVars, deviceVars, files, root, resolved, lowering, lowered>>

NextParser ==
    \/ ParseSpec \/ ImplDeviceFrom \/ ImplDTypeFromSig \/ ImplEnumMetaFrom
    \/ ImplMessageFrom \/ RenderMsgTable

SpecParser == InitParser /\ [][NextParser]_vars

\* ------------------------------------------------------------------------
\* Generator calls
\* ------------------------------------------------------------------------
\* a lowered setting with the flags of its spec
with_flags(stg, stg_spec) ==
    [name |-> stg.name, id |-> stg.id, comment |-> stg.comment, dtype |-> stg.dtype,
     vendordep |-> stg_spec.vendordep, vdep_setting |-> stg_spec.vdep_setting,
     readable |-> stg_spec.readable]
\* impl_Device_from(dev_spec) with the dicts in insertion order: the first
\* message or setting that fails to lower ends the call.  The flags of a
\* setting are copied from the spec; enums, bitsets and structs, which
\* gen_msg and gen_stg do not read, are left empty.
impl_Device_from_items(dev_spec) ==
    LET msg(k)   == impl_Message_from(dev_spec.msg[k][2], dev_spec)
        stg(k)   == impl_Setting_from(dev_spec.settings[k][1], dev_spec.settings[k][2], dev_spec)
        badm     == {k \in 1..Len(dev_spec.msg) : msg(k).err # "none"}
        bads     == {k \in 1..Len(dev_spec.settings) : stg(k).err # "none"}
        flagged(k) == with_flags(stg(k).val, dev_spec.settings[k][2])
    IN  IF badm # {} THEN msg(CHOOSE k \in badm : \A j \in badm : k <= j)
        ELSE IF bads # {} THEN stg(CHOOSE k \in bads : \A j \in bads : k <= j)
        ELSE Ret(Device(dev_spec.name, dev_spec.arch, dev_spec.dev_type, dev_spec.dev_class,
                        [k \in 1..Len(dev_spec.msg) |-> <<dev_spec.msg[k][1], msg(k).val>>],
                        [k \in 1..Len(dev_spec.settings) |->
                            <<dev_spec.settings[k][1], flagged(k)>>],
                        <<>>, <<>>, <<>>,
                        dev_spec.vendordep.java_package, dev_spec.vendordep.cpp_namespace,
                        dev_spec))

\* a resolved spec about to be lowered and handed to the generators
InitGen ==
    /\ call = "generate"
    /\ lowering \in {[fn |-> "generate", dev |-> d] : d \in GenDevs}
    /\ files = <<>> /\ root = ""
    /\ resolved = PendingR /\ lowered = PendingR /\ emitted = PendingR
    /\ message = NoMessage /\ dev_id = 0 /\ device_type = None /\ wrapper = PendingW
    /\ IdleCodec /\ IdleDevice /\ IdleBus

\* impl_Device_from(dev_spec)
GenLower ==
    /\ call = "generate" /\ lowered.err = "pending"
    /\ lowered' = impl_Device_from_items(lowering.dev)
    /\ UNCHANGED <<call, sig, value, encoded, max_idx, decoded, message, dev_id, device_type,
                   wrapper, received, device, api_index, address>>
    /\ UNCHANGED <<busVars, deviceVars, files, root, resolved, lowering, emitted>>

\* what a generator returned or raised when run on the lowered device
Emitted(by, result) == [err |-> result.err, val |-> result.val, by |-> by]

\* java.gen_msg(dev)
JavaGenMsg ==
    /\ call = "generate" /\ lowered.err = "none" /\ emitted.err = "pending"
    /\ emitted' = Emitted("java.gen_msg", java_gen_msg(lowered.val))
    /\ UNCHANGED <<call, sig, value, encoded, max_idx, decoded, message, dev_id, device_type,
                   wrapper, received, device, api_index, address>>
    /\ UNCHANGED <<busVars, deviceVars, files, root, resolved, lowering, lowered>>

\* java.gen_stg(dev)
JavaGenStg ==
    /\ call = "generate" /\ lowered.err = "none" /\ emitted.err = "pending"
    /\ emitted' = Emitted("java.gen_stg", java_gen_stg(lowered.val))
    /\ UNCHANGED <<call, sig, value, encoded, max_idx, decoded, message, dev_id, device_type,
                   wrapper, received, device, api_index, address>>
    /\ UNCHANGED <<busVars, deviceVars, files, root, resolved, lowering, lowered>>

\* python.gen_msg(dev)
PythonGenMsg ==
    /\ call = "generate" /\ lowered.err = "none" /\ emitted.err = "pending"
    /\ emitted' = Emitted("python.gen_msg", python_gen_msg(lowered.val, lowered.val.messages))
    /\ UNCHANGED <<call, sig, value, encoded, max_idx, decoded, message, dev_id, device_type,
                   wrapper, received, device, api_index, address>>
    /\ UNCHANGED <<busVars, deviceVars, files, root, resolved, lowering, lowered>>

\* python.gen_stg(dev)
PythonGenStg ==
    /\ call = "generate" /\ lowered.err = "none" /\ emitted.err = "pending"
    /\ emitted' = Emitted("python.gen_stg", python_gen_stg(lowered.val, lowered.val.settings))
    /\ UNCHANGED <<call, sig, value, encoded, max_idx, decoded, message, dev_id, device_type,
                   wrapper, received, device, api_index, address>>
    /\ UNCHANGED <<busVars, deviceVars, files, root, resolved, lowering, lowered>>

\* rst: the renderable messages, settings and setting commands of the spec
RstRenderables ==
    /\ call = "generate" /\ lowered.err = "none" /\ emitted.err = "pending"
    /\ emitted' = Emitted("rst", Ret([messages |-> renderable_messages(lowering.dev),
                                settings |-> renderable_settings(lowering.dev),
                                setting_commands |-> renderable_setting_commands(lowering.dev)]))
    /\ UNCHANGED <<call, sig, value, encoded, max_idx, decoded, message, dev_id, device_type,
                   wrapper, received, device, api_index, address>>
    /\ UNCHANGED <<busVars, deviceVars, files, root, resolved, lowering, lowered>>

\* dtype.default_value_as_bits() on the dtype of a setting
DefaultValueAsBits ==
    /\ call = "generate" /\ lowered.err = "none" /\ emitted.err = "pending"
    /\ \E k \in 1..Len(lowered.val.settings) :
          LET dtype == lowered.val.settings[k][2].dtype
              bits  == default_value_as_bits(dtype)
          IN  emitted' = Emitted("default_value_as_bits",
                                 IF bits.err # "none" THEN bits
                                 ELSE Ret([dtype |-> dtype, bits |-> bits.val]))
    /\ UNCHANGED <<call, sig, value, encoded, max_idx, decoded, message, dev_id, device_type,
                   wrapper, received, device, api_index, address>>
    /\ UNCHANGED <<busVars, deviceVars, files, root, resolved, lowering, lowered>>

NextGen ==
    \/ GenLower \/ JavaGenMsg \/ JavaGenStg \/ PythonGenMsg \/ PythonGenStg
    \/ RstRenderables \/ DefaultValueAsBits

SpecGen == InitGen /\ [][NextGen]_vars

\* ------------------------------------------------------------------------
\* Properties
\* ------------------------------------------------------------------------
HintNames(cls) == {cls.hints[k].name : k \in 1..Len(cls.hints)}
SigOf(cls, nm) == cls.hints[CHOOSE k \in 1..Len(cls.hints) : cls.hints[k].name = nm].sig
FloatLe(a, b) == FloatLess(a, b) \/ FloatEq(a, b)

RECURSIVE Constrained(_, _)
\* the value satisfies the constraint its signal kind puts on it
Constrained(meta, v) ==
    CASE meta.kind = "UInt" ->
           v.t = "int" /\ unwrap_or(meta.min, 0) <= v.i /\ v.i <= unwrap_or(meta.max, 2^meta.width - 1)
      [] meta.kind = "SInt" ->
           /\ v.t = "int"
           /\ unwrap_or(meta.min, -(2^(meta.width - 1))) <= v.i
           /\ v.i <= unwrap_or(meta.max, 2^(meta.width - 1) - 1)
      [] meta.kind = "Boolean" -> v.t = "int" /\ v.i \in {0, 1}
      [] meta.kind = "Float" ->
           /\ v.t = "float"
           /\ meta.allow_nan_inf \/ isfinite(v.d)
           /\ ~meta.min.some \/ FloatLe(meta.min.v, v.d)
           /\ ~meta.max.some \/ FloatLe(v.d, meta.max.v)
      [] meta.kind = "Buffer" -> v.t = "bytes" /\ Len(v.s) <= (meta.width + 7) \div 8
      [] meta.kind \in {"Bitset", "Enum"} -> v.t = "int" /\ 0 <= v.i /\ v.i < 2^meta.width
      [] meta.kind = "Struct" ->
           /\ v.t = "obj"
           /\ \A k \in 1..Len(meta.dtype) : Constrained(meta.dtype[k].sig.meta, v.f[meta.dtype[k].name])

RECURSIVE FullWidth(_, _)
\* every buffer has exactly ceil(width/8) bytes, and every float narrower
\* than 64 bits is a non-NaN value that binary32 represents exactly
FullWidth(meta, v) ==
    CASE meta.kind = "Buffer" -> Len(v.s) = (meta.width + 7) \div 8
      [] meta.kind = "Float" ->
           meta.width = 64 \/ (~DIsNaN(v.d) /\ pack_f(v.d).err = "none" /\ unpack_f(pack_f(v.d).bits) = v.d)
      [] meta.kind = "Struct" ->
           \A k \in 1..Len(meta.dtype) : FullWidth(meta.dtype[k].sig.meta, v.f[meta.dtype[k].name])
      [] OTHER -> TRUE

AllPopulated(m) == \A nm \in HintNames(m.cls) : m.f[nm].t # "None"
ConstrainedMsg(m) == \A nm \in HintNames(m.cls) : Constrained(SigOf(m.cls, nm).meta, m.f[nm])
FullWidthMsg(m) == \A nm \in HintNames(m.cls) : FullWidth(SigOf(m.cls, nm).meta, m.f[nm])
RoundTripped ==
    /\ received.err = "none"
    /\ received.cls = message.cls.name
    /\ PyEq(received.val, PyObj(message.f))

C2_DlcRule ==
    (call = "Message" /\ wrapper.err = "none") =>
        LET hints  == message.cls.hints
            opt    == {k \in 1..Len(hints) : hints[k].sig.optional}
            absent == {k \in opt : message.f[hints[k].name].t = "None"}
        IN  /\ wrapper.dlc = IF opt \ absent = {} THEN message.cls.meta.min_length
                             ELSE message.cls.meta.max_length
            /\ wrapper.data = UNION {Signal_encode([hints[k].sig EXCEPT !.optional = FALSE],
                                                   message.f[hints[k].name]).bits
                                     : k \in (1..Len(hints)) \ absent}

C2_Witness ==
    /\ call = "Message" /\ wrapper.err = "none" /\ message.cls.name = "OptionalPair"
    /\ message.f["setting_index"].t = "int" /\ message.f["count"].t = "None"
    /\ wrapper.dlc = 8 /\ wrapper.dlc # message.cls.meta.min_length

\* C3: a frame encoded with its optional signal left None (dlc = min_length)
\* decodes to None for that signal whenever the signal starts at bit offset
\* >= min_length * 8.
C3_AbsentOptional ==
    (call = "Message" /\ received.err = "none" /\ wrapper.dlc = message.cls.meta.min_length) =>
        \A nm \in HintNames(message.cls) :
            (/\ SigOf(message.cls, nm).optional
             /\ message.f[nm].t = "None"
             /\ SigOf(message.cls, nm).offset >= message.cls.meta.min_length * 8)
                => received.val.f[nm].t = "None"

\* C4: encoding a UInt or SInt value outside [min, max] fails with an
\* out-of-range error and yields no frame, every value inside is accepted;
\* an absent bound defaults to [0, 2^w - 1] (UInt), [-2^(w-1), 2^(w-1) - 1]
\* (SInt).
C4_Low(meta) == IF meta.min.some THEN meta.min.v
                ELSE IF meta.kind = "UInt" THEN 0 ELSE -(2^(meta.width - 1))
C4_High(meta) == IF meta.max.some THEN meta.max.v
                 ELSE IF meta.kind = "UInt" THEN 2^meta.width - 1 ELSE 2^(meta.width - 1) - 1
C4_InRange(meta, v) == C4_Low(meta) <= v.i /\ v.i <= C4_High(meta)
C4_Bounds ==
    /\ (call = "Signal" /\ sig.meta.kind \in {"UInt", "SInt"} /\ value.t = "int"
        /\ encoded.err # "pending")
           => IF C4_InRange(sig.meta, value) THEN encoded.err = "none"
              ELSE encoded.err = "ValueError" /\ encoded.bits = {}
    /\ (call = "Message" /\ wrapper.err # "pending")
           => \A nm \in HintNames(message.cls) :
                  (/\ SigOf(message.cls, nm).meta.kind \in {"UInt", "SInt"}
                   /\ message.f[nm].t = "int"
                   /\ ~C4_InRange(SigOf(message.cls, nm).meta, message.f[nm]))
                      => wrapper.err = "ValueError"

C4_Witness ==
    /\ call = "Signal" /\ sig.meta.kind = "SInt" /\ ~sig.meta.max.some
    /\ value.t = "int" /\ value.i = 2^(sig.meta.width - 1)
    /\ encoded.err = "ValueError"

\* C5: for an SInt signal of width w at any offset and a value v in its
\* range, encode emits v mod 2^w in bits [offset, offset + w) and decoding
\* that payload returns exactly v.
C5_SignExtension ==
    (call = "Signal" /\ sig.meta.kind = "SInt" /\ value.t = "int" /\ encoded.err = "none") =>
        /\ encoded.bits = Shl(BitsOf(value.i % (2^sig.meta.width)), sig.offset)
        /\ encoded.bits \subseteq sig.offset..(sig.offset + sig.meta.width - 1)
        /\ (decoded.err # "pending" /\ sig.offset <= max_idx) => decoded = Ret(PyInt(value.i))

C5_Witness ==
    /\ call = "Signal" /\ sig.meta.kind = "SInt" /\ sig.offset = 34 /\ sig.meta.width = 16
    /\ value.t = "int" /\ value.i = -32768
    /\ decoded = Ret(PyInt(-32768))

\* C6: for a Float signal of width 24, encode emits the upper 24 bits of the
\* value's binary32 pattern b (b >> 8); decode shifts the field left by
\* exactly 8, so decode(encode(b)) has the pattern b with its low 8 bits
\* zeroed, and decode never fails.
C6_Float24 ==
    (/\ call = "Signal" /\ sig.meta.kind = "Float" /\ sig.meta.width = 24
     /\ value.t = "float" /\ encoded.err = "none") =>
        LET b == pack_f(value.d).bits
        IN  /\ encoded.bits = Shl(Shr(b, 8), sig.offset)
            /\ (decoded.err # "pending" /\ sig.offset <= max_idx)
                   => decoded = Ret(PyFloat(unpack_f(b \ (0..7))))

\* C7: encoding a Float signal succeeds exactly when (allow_nan_inf or the
\* value is finite) and (min is unset or value >= min) and (max is unset or
\* value <= max); otherwise it fails and no contribution is produced.
C7_FloatConstraints ==
    (/\ call = "Signal" /\ sig.meta.kind = "Float" /\ sig.meta.width \in {24, 32, 64}
     /\ value.t = "float" /\ encoded.err # "pending") =>
        /\ encoded.err = "none" <=>
               /\ sig.meta.allow_nan_inf \/ isfinite(value.d)
               /\ ~sig.meta.min.some \/ FloatLe(sig.meta.min.v, value.d)
               /\ ~sig.meta.max.some \/ FloatLe(value.d, sig.meta.max.v)
        /\ encoded.err # "none" => encoded.bits = {}

\* C8: encoding a Bitset signal of width w requires 0 <= v < 2^w; a value
\* outside that range makes encode fail instead of emitting bits.
C8_BitsetRange ==
    (call = "Signal" /\ sig.meta.kind = "Bitset" /\ value.t = "int" /\ encoded.err # "pending") =>
        IF 0 <= value.i /\ value.i < 2^sig.meta.width
        THEN encoded = Ok(Shl(BitsOf(value.i), sig.offset))
        ELSE encoded.err # "none" /\ encoded.bits = {}

\* C9 (as stated): a Buf signal of width w accepts every byte sequence of
\* length <= ceil((w+1)/8) and rejects every longer one.
C9_BufferCapacityAsStated ==
    (call = "Signal" /\ sig.meta.kind = "Buffer" /\ value.t = "bytes" /\ encoded.err # "pending") =>
        (encoded.err = "none" <=> Len(value.s) <= (sig.meta.width + 1 + 7) \div 8)

\* C9 (amended): a Buf signal of width w accepts every byte sequence of
\* length <= ceil(w/8), emitting its little-endian integer shifted to the
\* signal's offset, and rejects every longer one with an error and no
\* contribution.
C9_BufferCapacity ==
    (call = "Signal" /\ sig.meta.kind = "Buffer" /\ value.t = "bytes" /\ encoded.err # "pending") =>
        IF 8 * Len(value.s) < sig.meta.width + 8
        THEN encoded = Ok(Shl(from_bytes(value.s), sig.offset))
        ELSE encoded.err = "ValueError" /\ encoded.bits = {}

C9_Witness ==
    /\ call = "Signal" /\ sig.meta.kind = "Buffer" /\ sig.meta.width = 48
    /\ value.t = "bytes" /\ Len(value.s) = 7
    /\ encoded.err = "ValueError"

\* C10: the identifier built for (dev_type, vendor 0x0E, api_index,
\* device_id) equals ((dev_type & 0x1F) << 24) | (0x0E << 16) |
\* ((api_index & 0x3FF) << 6) | (device_id & 0x3F), both in to_wrapper and
\* in CANDevice.addr, for all inputs.
C10_Compose(dt, api, id) ==
    ((dt % 32) * (2^24)) + (14 * (2^16)) + ((api % 1024) * (2^6)) + (id % 64)
C10_ArbitrationId ==
    /\ (call = "Message" /\ wrapper.err = "none") =>
           wrapper.arb_id = C10_Compose(unwrap_or(device_type, message.cls.meta.device_type),
                                        message.cls.meta.id, dev_id)
    /\ (call = "CANDevice" /\ address # -1) =>
           address = C10_Compose(device.device_type, api_index, device.dev_id)


\* ------------------------------------------------------------------------
\* Struct signals
\* ------------------------------------------------------------------------
\* sub-signal k of a Struct signal, as a top-level signal at its absolute offset
Inlined(self, k) ==
    Signal(self.offset + self.meta.dtype[k].sig.offset, self.meta.dtype[k].sig.meta,
           self.meta.dtype[k].sig.optional)

\* C14: encoding a Struct signal at offset o yields exactly the bits obtained
\* by encoding each sub-signal as a top-level signal at o + its offset inside
\* the struct (and fails exactly when one of those fails); decoding yields for
\* each sub-signal what the top-level signal at that absolute offset decodes
\* to, None included when that offset lies past max_idx.
C14_StructInlining ==
    (call = "Signal" /\ sig.meta.kind = "Struct" /\ value.t = "obj" /\ encoded # Pending) =>
        LET dtype  == sig.meta.dtype
            n      == Len(dtype)
            inl(k) == Signal_encode(Inlined(sig, k), value.f[dtype[k].name])
            top(k) == Signal_decode(Inlined(sig, k), encoded.bits, max_idx)
        IN  /\ (encoded.err = "none") <=> (\A k \in 1..n : inl(k).err = "none")
            /\ encoded.err = "none" => encoded.bits = UNION {inl(k).bits : k \in 1..n}
            /\ encoded.err # "none" => \E k \in 1..n : inl(k).err = encoded.err
            /\ decoded # PendingV =>
                 IF decoded.err # "none" THEN \E k \in 1..n : top(k).err = decoded.err
                 ELSE IF decoded.val.t = "None" THEN \A k \in 1..n : top(k) = Ret(PyNone)
                 ELSE \A k \in 1..n : top(k) = Ret(decoded.val.f[dtype[k].name])

\* a struct placed at a positive offset decoded with one sub-signal inside
\* the payload and another one past it
C14_Witness ==
    /\ call = "Signal" /\ sig.meta.kind = "Struct" /\ sig.offset > 0
    /\ value.t = "obj" /\ encoded.err = "none" /\ encoded.bits # {}
    /\ decoded.err = "none" /\ decoded.val.t = "obj"
    /\ \E a, b \in DOMAIN decoded.val.f : decoded.val.f[a].t = "None" /\ decoded.val.f[b].t # "None"


\* ------------------------------------------------------------------------
\* Addressing and routing
\* ------------------------------------------------------------------------
\* the fields of an arbitration id, by masking
DevTypeOf(arb_id) == ValOf(BitAnd(Shr(BitsOf(arb_id), 24), BitsOf(31)))
VendorOf(arb_id) == ValOf(BitAnd(Shr(BitsOf(arb_id), 16), BitsOf(255)))
ApiIndexOf(arb_id) == ValOf(BitAnd(Shr(BitsOf(arb_id), 6), BitsOf(1023)))
DevIdOf(arb_id) == ValOf(BitAnd(BitsOf(arb_id), BitsOf(63)))
\* the triples <<dev_type, device_id, message_id>> next to a triple: each
\* field either kept or moved (by one, or by half the range for the device
\* id), wrapping inside the field's range
Neighbours(dt, id, m) ==
    {<<dt2, id2, m2>> : dt2 \in {dt, (dt + 1) % 32}, id2 \in {id, (id + 1) % 64, (id + 32) % 64},
                        m2 \in {m, (m + 1) % 32}} \ {<<dt, id, m>>}

\* C11: for every dev_type in 0..31, device_id in 0..63 and message_id in
\* 0..31 the arbitration id built by to_wrapper fits 29 bits and decomposes
\* by masking into the same triple (bits 28..24 dev_type, bits 23..16 0x0E,
\* bits 15..6 the message id, bits 5..0 the device id); no neighbouring
\* triple yields the same id, and decode_msg_generic finds the message id again.
C11_AddressPartitioning ==
    (/\ call = "Message" /\ wrapper.err = "none" /\ device_type = None
     /\ message.cls.meta.device_type \in DevTypeField
     /\ message.cls.meta.id \in MsgIdField
     /\ dev_id \in DevIdField) =>
        LET dt  == message.cls.meta.device_type
            m   == message.cls.meta.id
            arb == wrapper.arb_id
        IN  /\ arb < 2^29
            /\ DevTypeOf(arb) = dt /\ VendorOf(arb) = 14
            /\ ApiIndexOf(arb) = m /\ DevIdOf(arb) = dev_id
            /\ \A t \in Neighbours(dt, dev_id, m) : arb_id_of(t[1], t[3], t[2]) # arb
            /\ routed # PendingM =>
                   routed = IF dt = bdevice.device_type /\ m \in DOMAIN bdevice.messages
                            THEN from_wrapper(bdevice.messages[m], wrapper) ELSE NoneM

\* the largest triple sent, and a frame of the device routed to its class
C11_Witness ==
    /\ call = "Message" /\ wrapper.err = "none" /\ routed # PendingM
    /\ \/ /\ message.cls.meta.device_type = 31 /\ message.cls.meta.id = 31 /\ dev_id = 63
          /\ wrapper.arb_id = 31 * 2^24 + 14 * 2^16 + 31 * 2^6 + 63
       \/ /\ message.cls.meta.device_type = 7 /\ message.cls.meta.id = 30 /\ dev_id = 63
          /\ routed.cls = "VelocityOutput"

\* C12: decode_msg_generic returns None for every frame whose device-type or
\* vendor field differs from the device's (device_type, 0x0E) and for every
\* frame whose 10-bit api_index field (bits 15..6) is not a key of the
\* messages table; for every other frame it returns the decode of the class
\* registered under that id, whatever the frame's device id.
C12_FrameRouting ==
    (call \in {"Message", "Frame"} /\ routed # PendingM) =>
        LET arb  == wrapper.arb_id
            mine == DevTypeOf(arb) = bdevice.device_type /\ VendorOf(arb) = 14
            api  == ApiIndexOf(arb)
        IN  IF ~mine \/ api \notin DOMAIN bdevice.messages
            THEN routed = NoneM
            ELSE /\ routed = from_wrapper(bdevice.messages[api], wrapper)
                 /\ \A id \in {0, 63} :
                        routed = decode_msg_generic(bdevice,
                                     [wrapper EXCEPT !.arb_id = FrameArbId(DevTypeOf(arb), 14, api, id)])

\* C13: for every setting instance whose value encodes, BaseSetting.to_wrapper
\* returns a frame of the device's SetSetting message whose address field is
\* the setting's index, whose 48-bit value field is the setting's encoded
\* 6-byte payload and whose flags field carries the given ephemeral,
\* synch_hold and synch count.
C13_SettingFrame ==
    (/\ call = "Setting" /\ stg_wrapper # PendingS
     /\ BaseSetting_encode(setting).err = "none" /\ stg_args.synch_cnt <= 15) =>
        /\ stg_wrapper.err = "none"
        /\ stg_wrapper.ret.some
        /\ LET w    == stg_wrapper.ret.v
               meta == setting.cls.meta
               m    == from_wrapper(meta.set_setting, w)
           IN  /\ w.err = "none"
               /\ ApiIndexOf(w.arb_id) = meta.set_setting.meta.id
               /\ DevIdOf(w.arb_id) = dev_id
               /\ BitAnd(w.data, mask(8)) = BitsOf(meta.idx)
               /\ BitAnd(Shr(w.data, 8), mask(48)) = from_bytes(BaseSetting_encode(setting).s)
               /\ (56 \in w.data) = (stg_args.ephemeral = 1)
               /\ (57 \in w.data) = (stg_args.synch_hold = 1)
               /\ BitAnd(Shr(w.data, 60), mask(4)) = BitsOf(stg_args.synch_cnt)

\* ------------------------------------------------------------------------
\* Inheritance
\* ------------------------------------------------------------------------
MapFields == {"enums", "types", "msg", "settings", "setting_commands"}
SynthesizedEnums == {"SETTING", "SETTING_COMMAND"}
\* the spec handed to parse_spec and the specs its base list names
Upper == files[root]
BaseAt(i) == files[lower(Upper.base[i])]
\* the keys the upper spec and its listed bases define in map f
UnionKeys(f) == DOMAIN Upper[f] \cup UNION {DOMAIN BaseAt(i)[f] : i \in 1..Len(Upper.base)}
\* the value key k must resolve to: the upper spec's, else the earliest base's
Winner(f, k) ==
    IF k \in DOMAIN Upper[f] THEN Upper[f][k]
    ELSE LET i == CHOOSE i \in 1..Len(Upper.base) :
                     /\ k \in DOMAIN BaseAt(i)[f]
                     /\ \A j \in 1..(i - 1) : k \notin DOMAIN BaseAt(j)[f]
         IN  BaseAt(i)[f][k]
Identity(dev) == <<dev.name, dev.arch, dev.dev_type, dev.dev_class, dev.vendordep>>

\* C15 as stated: every resolved map, enums included, has exactly the union
\* of the keys of D and its bases, D's value winning, then the earliest base's
C15_AsStated ==
    resolved.err = "none" =>
        /\ \A f \in MapFields :
              /\ DOMAIN resolved.dev[f] = UnionKeys(f)
              /\ \A k \in UnionKeys(f) : resolved.dev[f][k] = Winner(f, k)
        /\ Identity(resolved.dev) = Identity(Upper)

\* C15 (amended): types, msg, settings and setting_commands resolve to the
\* union of the keys of D and its listed bases, D's value winning on a
\* collision and otherwise the earliest-declared base's; enums do so for
\* every name other than SETTING and SETTING_COMMAND, which are always
\* present; name, arch, dev_type, dev_class and vendordep are D's
C15_InheritanceOverride ==
    resolved.err = "none" =>
        /\ \A f \in MapFields \ {"enums"} :
              /\ DOMAIN resolved.dev[f] = UnionKeys(f)
              /\ \A k \in UnionKeys(f) : resolved.dev[f][k] = Winner(f, k)
        /\ DOMAIN resolved.dev.enums = UnionKeys("enums") \cup SynthesizedEnums
        /\ \A k \in UnionKeys("enums") \ SynthesizedEnums :
              resolved.dev.enums[k] = Winner("enums", k)
        /\ Identity(resolved.dev) = Identity(Upper)

\* two bases were merged: a key of D collides with the first base, and a
\* key D lacks is defined by both bases
C15_Witness ==
    /\ resolved.err = "none"
    /\ Len(Upper.base) = 2
    /\ "M1" \in DOMAIN Upper.msg /\ "M1" \in DOMAIN BaseAt(1).msg
    /\ "MODE" \in DOMAIN Upper.enums /\ "MODE" \in DOMAIN BaseAt(2).enums
    /\ "M2" \notin DOMAIN Upper.msg
    /\ "M2" \in DOMAIN BaseAt(1).msg /\ "M2" \in DOMAIN BaseAt(2).msg
    /\ resolved.dev.msg["M2"].comment = BaseAt(1).name
\* C16: what a base of a listed base defines, and neither D nor a listed base
\* lists, is present in the resolved spec
C16_TransitiveChain ==
    resolved.err = "none" =>
        \A i \in 1..Len(Upper.base) : \A j \in 1..Len(BaseAt(i).base) :
            LET c == lower(BaseAt(i).base[j])
            IN  (/\ c \in DOMAIN files /\ c # root
                 /\ \A m \in 1..Len(Upper.base) : lower(Upper.base[m]) # c)
                => \A f \in MapFields : DOMAIN files[c][f] \subseteq DOMAIN resolved.dev[f]

\* the files a file names as bases, and the files its base chain reaches
BasesOf(n) == IF n \in DOMAIN files THEN {lower(files[n].base[i]) : i \in 1..Len(files[n].base)} ELSE {}
Step(S) == S \cup UNION {BasesOf(n) : n \in S}
Chain(n) == Step(Step(Step(BasesOf(n))))
Cyclic == \E n \in {root} \cup Chain(root) : n \in Chain(n)

\* C17: parse_spec on a spec whose base chain contains a cycle returns no
\* resolved spec
C17_CycleRejected ==
    (resolved.err # "pending" /\ Cyclic) => resolved.err # "none"

\* the enum parse_spec must synthesize from a map of settings or commands
Synthesized(entries) ==
    EnumSpec("", "uint", 8, TRUE, "",
             [k \in DOMAIN entries |-> EnumEntrySpec(entries[k].id, entries[k].comment)])

\* C18: in the resolved spec SETTING has one entry per resolved setting and
\* SETTING_COMMAND one per resolved setting command, with its id and comment;
\* both are 8-bit uint, public, with an empty default, whatever enum of that
\* name the input specs hold
C18_SynthesizedEnums ==
    resolved.err = "none" =>
        /\ UnionKeys("settings") \subseteq DOMAIN resolved.dev.enums["SETTING"].values
        /\ resolved.dev.enums["SETTING"] = Synthesized(resolved.dev.settings)
        /\ resolved.dev.enums["SETTING_COMMAND"] = Synthesized(resolved.dev.setting_commands)

\* a setting was inherited from a base, and the input specs hold enums named
\* SETTING and SETTING_COMMAND
C18_Witness ==
    /\ resolved.err = "none"
    /\ DOMAIN resolved.dev.settings \ DOMAIN Upper.settings # {}
    /\ DOMAIN resolved.dev.setting_commands # {}
    /\ SynthesizedEnums \subseteq UnionKeys("enums")
    /\ DOMAIN resolved.dev.enums["SETTING"].values = DOMAIN resolved.dev.settings
\* ------------------------------------------------------------------------
\* Lowering
\* ------------------------------------------------------------------------
\* the effective default name: the signal's when it gives one, else the enum's
EffectiveName(entry, default_value) ==
    IF default_value.some /\ default_value.v # PyStr("") THEN default_value.v.s
    ELSE entry.default_value
\* what lowering the enum must yield: res is the EnumMeta or the exception
EnumOutcome(name, entry, default_value, res) ==
    LET eff == EffectiveName(entry, default_value)
    IN  IF eff \in DOMAIN entry.values
        THEN /\ res.err = "none"
             /\ res.val.default_value = eff
             /\ res.val.default_value_idx = entry.values[eff].id
        ELSE IF name \in SynthesizedEnums
        THEN res.err = "none" /\ res.val.default_value = "" /\ res.val.default_value_idx = 0
        ELSE res.err # "none"

RECURSIVE ReferencedDefault(_, _)
\* the default of a named type: its own, else that of the type it aliases
ReferencedDefault(dev, name) ==
    LET t == dev.types[name]
    IN  IF t.default_value.some THEN t.default_value
        ELSE IF t.btype \in DOMAIN dev.types THEN ReferencedDefault(dev, t.btype)
        ELSE None
\* the default a lowered DType carries, if any
LoweredDefault(meta) ==
    CASE meta.kind \in {"UIntMeta", "SIntMeta", "FloatMeta", "BufMeta"} -> Some(meta.default_value)
      [] meta.kind = "BoolMeta" ->
           IF meta.default_value.t = "None" THEN None ELSE Some(meta.default_value)
      [] meta.kind = "BitsetMeta" -> Some(PyInt(default_u64(meta)))
      [] meta.kind = "EnumMeta" -> Some(PyStr(meta.default_value))
      [] OTHER -> None
\* Python ==, on numbers and names
SameValue(a, b) ==
    IF a.t \in {"int", "float"} /\ b.t \in {"int", "float"}
    THEN FloatEq(py_float(a).d, py_float(b).d)
    ELSE a = b
\* the default the signal's dtype must be lowered with
\* (an enum default that names no entry is not propagated: it is replaced or
\* rejected)
ExpectedDefault(dev, dtype_name, default_value) ==
    IF dtype_name[1] = "enum"
    THEN LET eff == EffectiveName(dev.enums[dtype_name[2]], default_value)
         IN  IF eff \in DOMAIN dev.enums[dtype_name[2]].values THEN Some(PyStr(eff)) ELSE None
    ELSE IF default_value.some THEN default_value
    ELSE ReferencedDefault(dev, dtype_name[1])
DefaultKinds == {"UIntMeta", "SIntMeta", "FloatMeta", "BufMeta", "BoolMeta", "BitsetMeta", "EnumMeta"}

\* C20: a signal whose dtype names a type or an enum is lowered with the
\* signal's own default when it gives one and the referenced type's default
\* otherwise, whatever the kind of the referenced type
C20_DefaultPropagation ==
    (/\ call = "lower" /\ lowering.fn = "impl_DType_from_sig" /\ lowered.err = "none"
     /\ lowering.dtype_name \in NamedDTypes \cup EnumDTypes
     /\ lowered.val.meta.kind \in DefaultKinds
     /\ ExpectedDefault(lowering.dev, lowering.dtype_name, lowering.default_value).some)
    => /\ LoweredDefault(lowered.val.meta).some
       /\ SameValue(LoweredDefault(lowered.val.meta).v,
                    ExpectedDefault(lowering.dev, lowering.dtype_name, lowering.default_value).v)
\* ------------------------------------------------------------------------
\* Message lengths
\* ------------------------------------------------------------------------
\* C21: a message spec with length lowers to min_length = max_length =
\* length; without length, min_length is the given one or 0 and max_length
\* the given one or 8, a given 0 being kept
C21_MessageLength ==
    (call = "lower" /\ lowering.fn = "impl_Message_from" /\ lowered.err # "pending") =>
        /\ lowered.err = "none"
        /\ IF lowering.dm.length.some
           THEN /\ lowered.val.min_length = lowering.dm.length.v
                /\ lowered.val.max_length = lowering.dm.length.v
           ELSE /\ lowered.val.min_length =
                      (IF lowering.dm.min_length.some THEN lowering.dm.min_length.v ELSE 0)
                /\ lowered.val.max_length =
                      (IF lowering.dm.max_length.some THEN lowering.dm.max_length.v ELSE 8)

\* a message without length and min_length whose max_length is given as 0
\* was lowered with the bounds (0, 0)
C21_Witness ==
    /\ call = "lower" /\ lowering.fn = "impl_Message_from"
    /\ ~lowering.dm.length.some /\ ~lowering.dm.min_length.some
    /\ lowering.dm.max_length = Some(0)
    /\ lowered.err = "none" /\ lowered.val.min_length = 0 /\ lowered.val.max_length = 0
\* the value of the row with the given label, if the table has one
Cell(rows, label) ==
    IF \E i \in 1..Len(rows) : rows[i].label = label
    THEN Some(rows[CHOOSE i \in 1..Len(rows) : rows[i].label = label].v)
    ELSE None
\* the minimum and maximum message length a rendered table reports
ReportedLengths(rows) ==
    IF Cell(rows, "Message length").some
    THEN <<Cell(rows, "Message length").v, Cell(rows, "Message length").v>>
    ELSE <<Cell(rows, "Minimum message length").v, Cell(rows, "Maximum message length").v>>

\* C30: the minimum and maximum length render_msg_table reports for a
\* message spec are the min_length and max_length impl_Message_from stores
C30_DocumentedLengths ==
    (/\ call = "lower" /\ lowering.fn = "impl_Message_from"
     /\ lowered.err = "none" /\ emitted.err = "none")
    => ReportedLengths(emitted.val) =
          <<PyInt(lowered.val.min_length), PyInt(lowered.val.max_length)>>

\* ------------------------------------------------------------------------
\* Generated layouts
\* ------------------------------------------------------------------------
RECURSIVE Leaves(_, _)
\* the leaf signals of a signal list in order, pads included, a struct
\* replaced by its sub-signals: the name as a path and the bit length
Leaves(owner, signals) ==
    IF signals = <<>> THEN <<>>
    ELSE LET s == Head(signals)
         IN  (IF s.dtype.meta.kind = "StructMeta"
              THEN Leaves(owner \o <<s.name>>, s.dtype.meta.signals)
              ELSE <<[name |-> owner \o <<s.name>>, kind |-> s.dtype.meta.kind,
                      min |-> IF s.dtype.meta.kind \in {"UIntMeta", "SIntMeta"}
                              THEN s.dtype.meta.min ELSE PyNone,
                      max |-> IF s.dtype.meta.kind \in {"UIntMeta", "SIntMeta"}
                              THEN s.dtype.meta.max ELSE PyNone,
                      bits |-> DType_bit_length(s.dtype)]>>)
             \o Leaves(owner, Tail(signals))
RECURSIVE SumBits(_, _)
\* the bit lengths of the first n entries summed
SumBits(leaves, n) == IF n = 0 THEN 0 ELSE SumBits(leaves, n - 1) + leaves[n].bits
\* the entries that are given an offset: (offset, bit length) of every leaf
\* that is not a pad, the offset being the sum of all bit lengths before it
Placed(leaves) ==
    LET at == [i \in 1..Len(leaves) |-> [name |-> leaves[i].name, offset |-> SumBits(leaves, i - 1),
                                         bits |-> leaves[i].bits]]
    IN  filtered(at, [i \in 1..Len(leaves) |-> leaves[i].kind \notin {"PadMeta", "None"}])
\* the message of the lowered device with the given name
MessageNamed(name) ==
    lowered.val.messages[CHOOSE k \in 1..Len(lowered.val.messages) :
                            lowered.val.messages[k][1] = name][2]
\* the shift a pack expression ends with
ShiftOf(e) == IF e.op = "<<" THEN e.n ELSE 0
\* the offsets of the entries of a Python message class, signal by signal
\* (a struct is one entry), and of the pack expressions of a Java construct
\* function, leaf by leaf, are the sums of the bit lengths before them
PythonOffsetsAreSums(msg, entries) ==
    LET placed == Placed([i \in 1..Len(msg.signals) |->
                             [name |-> <<msg.signals[i].name>>, kind |-> msg.signals[i].dtype.meta.kind,
                              bits |-> DType_bit_length(msg.signals[i].dtype)]])
    IN  /\ Len(entries) = Len(placed)
        /\ \A i \in 1..Len(placed) :
              <<entries[i].name>> = placed[i].name /\ entries[i].offset = placed[i].offset
JavaOffsetsAreSums(msg, construct) ==
    LET placed == Placed(Leaves(<<>>, msg.signals))
    IN  /\ Len(construct.args) = Len(placed)
        /\ \A i \in 1..Len(placed) :
              /\ construct.args[i].name = placed[i].name
              /\ ShiftOf(construct.pack_exprs[i]) = placed[i].offset
\* the ranges [offset, offset + bits) of the placed entries follow one another
\* without overlap
Disjoint(placed) ==
    \A i \in 1..Len(placed), j \in 1..Len(placed) :
        i < j => placed[i].offset + placed[i].bits <= placed[j].offset
OffsetsAreSums ==
    /\ (call = "generate" /\ emitted.err = "none" /\ emitted.by = "python.gen_msg") =>
          \A k \in 1..Len(emitted.val) :
              /\ PythonOffsetsAreSums(lowered.val.messages[k][2], emitted.val[k].entries)
              /\ Disjoint(Placed(Leaves(<<>>, lowered.val.messages[k][2].signals)))
    /\ (call = "generate" /\ emitted.err = "none" /\ emitted.by = "java.gen_msg") =>
          \A k \in 1..Len(emitted.val) :
              JavaOffsetsAreSums(MessageNamed(emitted.val[k].name), emitted.val[k].construct)
\* every message a generator was run on has room for its signals
SignalsFit ==
    (call = "generate" /\ emitted.err = "none" /\ emitted.by \in {"python.gen_msg", "java.gen_msg"}) =>
        \A k \in 1..Len(lowered.val.messages) :
            SumBitLengths(lowered.val.messages[k][2].signals)
                <= lowered.val.messages[k][2].max_length * 8

\* C22: in every message handed to a generator the offset given to a signal
\* is the sum of the bit lengths of the signals before it, pads included, the
\* ranges of the signals do not overlap, and the bit lengths add up to at
\* most max_length * 8
C22_MonotoneOffsets == OffsetsAreSums /\ SignalsFit

\* ------------------------------------------------------------------------
\* Emission order
\* ------------------------------------------------------------------------
\* the position and the id of the named entry of a dict
PosOf(items, name) == CHOOSE k \in 1..Len(items) : items[k][1] = name
IdOf(items, name) == items[PosOf(items, name)][2].id
\* names lists exactly the entries of the dict that are kept, each once
Lists(names, items, keep) ==
    /\ {names[i] : i \in 1..Len(names)} = {items[k][1] : k \in {j \in 1..Len(items) : keep[j]}}
    /\ \A i \in 1..Len(names), j \in 1..Len(names) : names[i] = names[j] => i = j
\* names is in descending (ascending) order of id, entries of equal id in
\* the order of the dict
Ordered(names, items, descending) ==
    \A i \in 1..Len(names), j \in 1..Len(names) :
        i < j =>
           /\ IF descending THEN IdOf(items, names[i]) >= IdOf(items, names[j])
              ELSE IdOf(items, names[i]) <= IdOf(items, names[j])
           /\ IdOf(items, names[i]) = IdOf(items, names[j])
                 => PosOf(items, names[i]) < PosOf(items, names[j])
NamesOf(items) == [i \in 1..Len(items) |-> items[i][1]]
MemberNames(members) == [i \in 1..Len(members) |-> members[i].name]
Everything(items) == [i \in 1..Len(items) |-> TRUE]

JavaInt(n) == IF n >= 0 THEN BitsOf(n) ELSE (0..31) \ BitsOf(-n - 1)
\* (long) x for an int x: sign extension
JavaWiden(v) == IF 31 \in v THEN v \cup (32..63) ELSE v
\* x >> n for an int x: the sign bit is shifted in
JavaIntShr(v, n) == Shr(v, n) \cup (IF 31 \in v THEN (32 - n)..31 ELSE {})
\* x << n for a long x: the distance is taken modulo 64 and the bits shifted
\* past bit 63 are lost
JavaLongShl(v, n) == {i \in Shl(v, n % 64) : i < 64}
\* values of the parameter types: ints of either sign up to the limits of
\* the type, longs, booleans, floats and doubles as their bit patterns
\* (1.0f, -1.0f, 1.0, -1.0 among them)
JavaValues(jtype) ==
    CASE jtype = "int" ->
           {JavaInt(n) : n \in {0, 1, 5, 127, 255, -1, -3, -128}} \cup {{31}, 0..30}
      [] jtype = "long" -> {{}, {0}, 0..62, {63}, 0..63}
      [] jtype = "boolean" -> BOOLEAN
      [] jtype = "float" -> {{}, 23..29, (23..29) \cup {31}, {0, 22, 31}}
      [] jtype = "double" -> {{}, 52..61, (52..61) \cup {63}}
RECURSIVE JavaEval(_, _)
\* the long a pack expression evaluates to for the value v of its parameter
JavaEval(e, v) ==
    CASE e.op = "(long) x" -> JavaWiden(v)
      [] e.op = "(long) x & m" -> BitAnd(JavaWiden(v), e.m)
      [] e.op = "x & m" -> BitAnd(v, e.m)
      [] e.op = "x" -> v
      [] e.op = "x ? 1L : 0L" -> IF v THEN {0} ELSE {}
      [] e.op = "(long) (Float.floatToIntBits(x) >> 8) & m" ->
           BitAnd(JavaWiden(JavaIntShr(v, 8)), e.m)
      [] e.op = "(long) Float.floatToIntBits(x) & m" -> BitAnd(JavaWiden(v), e.m)
      [] e.op = "Double.doubleToLongBits(x)" -> v
      [] e.op = "<<" -> JavaLongShl(JavaEval(e.e, v), e.n)
      [] e.op = "0" -> {}
\* the bits of a value that make up a signal of the given width: the low
\* bits of an integer, the flag of a boolean, the pattern of a float, of
\* which float:24 keeps the upper 24 bits
SignalBits(jtype, v, width) ==
    CASE jtype = "boolean" -> IF v THEN {0} ELSE {}
      [] jtype = "float" /\ width = 24 -> Shr(v, 8)
      [] OTHER -> BitAnd(v, mask(width))
\* every pack expression of a construct function yields the signal bits of
\* its argument at the offset of the signal, and nothing else
PacksAsCodec(signals, construct) ==
    LET placed == Placed(Leaves(<<>>, signals))
    IN  \A i \in 1..Len(construct.args) :
            \A v \in JavaValues(construct.args[i].jtype) :
                JavaEval(construct.pack_exprs[i], v)
                    = Shl(SignalBits(construct.args[i].jtype, v, placed[i].bits), placed[i].offset)
\* the setting of the lowered device with the given name, and the signals
\* its construct function packs
SettingNamed(name) ==
    lowered.val.settings[CHOOSE k \in 1..Len(lowered.val.settings) :
                            lowered.val.settings[k][1] = name][2]
SettingSignals(name) ==
    IF SettingNamed(name).dtype.meta.kind = "StructMeta"
    THEN SettingNamed(name).dtype.meta.signals
    ELSE <<Signal_from_stg(name, SettingNamed(name))>>

\* C24: the pack expression the Java generator emits for a signal of width w
\* at offset o evaluates, for every value v of the parameter's Java type,
\* negative ones included, to (v & (2^w - 1)) << o
C24_PackMatchesCodec ==
    (call = "generate" /\ emitted.err = "none") =>
        /\ emitted.by = "java.gen_msg" =>
              \A k \in 1..Len(emitted.val) :
                  PacksAsCodec(MessageNamed(emitted.val[k].name).signals, emitted.val[k].construct)
        /\ emitted.by = "java.gen_stg" =>
              \A k \in 1..Len(emitted.val.members) :
                  PacksAsCodec(SettingSignals(emitted.val.members[k].name),
                               emitted.val.members[k].construct)

\* ------------------------------------------------------------------------
\* Generated bounds checks
\* ------------------------------------------------------------------------
\* a signal whose bounds are the whole range of its Java type
NativeRange(leaf) ==
    \/ leaf.kind = "UIntMeta" /\ leaf.bits = 64
    \/ /\ leaf.kind = "SIntMeta" /\ leaf.bits \in {32, 64}
       /\ leaf.min = PyInt(default_sint_min(leaf.bits))
       /\ leaf.max = PyInt(default_sint_max(leaf.bits))
\* the construct function checks every UInt and SInt argument against the
\* bounds of its signal, signals of native range excepted
ChecksBounds(signals, construct) ==
    LET leaves == Leaves(<<>>, signals)
    IN  \A i \in 1..Len(leaves) :
            (leaves[i].kind \in {"UIntMeta", "SIntMeta"} /\ ~NativeRange(leaves[i])) =>
                \E c \in 1..Len(construct.checks) :
                    construct.checks[c] = RangeCheck(leaves[i].name, leaves[i].min, leaves[i].max,
                                                     construct.checks[c].long)
SettingsCheckBounds ==
    (call = "generate" /\ emitted.err = "none" /\ emitted.by = "java.gen_stg") =>
        \A k \in 1..Len(emitted.val.members) :
            ChecksBounds(SettingSignals(emitted.val.members[k].name),
                         emitted.val.members[k].construct)
MessagesCheckBounds ==
    (call = "generate" /\ emitted.err = "none" /\ emitted.by = "java.gen_msg") =>
        \A k \in 1..Len(emitted.val) :
            ChecksBounds(MessageNamed(emitted.val[k].name).signals, emitted.val[k].construct)

\* C25: every construct function the Java generator emits, for a message as
\* for a setting, holds a range check against [min, max] for each UInt and
\* SInt argument, except uint:64 and sint:32 / sint:64 of native range
C25_BoundsChecks == SettingsCheckBounds /\ MessagesCheckBounds

\* ------------------------------------------------------------------------
\* Default bits
\* ------------------------------------------------------------------------
\* an int in [0, 2^bits)
InRange(v, bits) == v.t = "long" /\ ~v.neg /\ v.bits \subseteq mask(bits)

\* C29: default_value_as_bits() of the dtype of a lowered setting is an
\* integer in [0, 2^bit_length()), also for a struct with a signed
\* sub-signal of negative default
C29_DefaultBitsInRange ==
    (/\ call = "generate" /\ emitted.err = "none" /\ emitted.by = "default_value_as_bits"
     /\ emitted.val.dtype.meta.kind # "None")
    => InRange(emitted.val.bits, DType_bit_length(emitted.val.dtype))

\* ------------------------------------------------------------------------
\* Fields of a payload
\* ------------------------------------------------------------------------
\* the number of bits a signal occupies from its offset: the width of its
\* metadata, and for a Struct the extent of the fields of its dataclass
RECURSIVE extent(_)
extent(meta) ==
    IF meta.kind # "Struct" THEN meta.width
    ELSE LET ends == {meta.dtype[k].sig.offset + extent(meta.dtype[k].sig.meta)
                      : k \in 1..Len(meta.dtype)}
         IN  IF ends = {} THEN 0 ELSE CHOOSE e \in ends : \A d \in ends : d <= e
\* the bit positions [offset, offset + width) of a signal
field_of(self) == self.offset..(self.offset + extent(self.meta) - 1)

\* C26: whatever value Signal.encode accepts, of any signal kind, the
\* contribution it returns has no bit set outside [offset, offset + width).
C26_NoSpill ==
    (call = "Signal" /\ encoded.err = "none") => encoded.bits \subseteq field_of(sig)

\* ------------------------------------------------------------------------
\* Payloads and the bytes that carry them
\* ------------------------------------------------------------------------
\* MessageWrapper.as_bytes(self): data.to_bytes(dlc, "little")[:dlc]
as_bytes(self) ==
    IF ~fits_bytes(self.data, self.dlc) THEN RaiseB("OverflowError")
    ELSE RetB(to_bytes(self.data, self.dlc))

\* C27: every frame to_wrapper returns has its payload within its dlc bytes
\* (data < 2^(8 * dlc)), so that as_bytes, and with it to_can, returns them.
C27_PayloadFitsDlc ==
    (call = "Message" /\ wrapper.err = "none") =>
        /\ fits_bytes(wrapper.data, wrapper.dlc)
        /\ as_bytes(wrapper).err = "none"

\* ------------------------------------------------------------------------
\* CANDevice.fetch_setting (device.py) and the bus it talks to
\* ------------------------------------------------------------------------
\* Most frames a fetch is offered, and most times bus.recv comes back empty.
MaxBusLen == 2
MaxWaits == 1

\* cananddevice.types.SettingCommand.FETCH_SETTING_VALUE
FETCH_SETTING_VALUE == 2

\* can.Message(arbitration_id=..., data=...): the dlc is the number of bytes
CanMessage(arbitration_id, data) ==
    [arbitration_id |-> arbitration_id, dlc |-> Len(data), data |-> data]

\* MessageWrapper.to_can(self)
to_can(self) ==
    LET data == as_bytes(self)
    IN  IF data.err # "none" THEN RaiseV(data.err)
        ELSE Ret(CanMessage(self.arb_id, data.s))

\* MessageWrapper.from_can(msg)
from_can(msg) == MessageWrapper(from_bytes(msg.data), msg.dlc, msg.arbitration_id)

\* BaseSetting.decode(cls, data): data[:6] of None is a TypeError
BaseSetting_decode(cls, data) ==
    IF data.t # "bytes" THEN RaiseV("TypeError")
    ELSE
    LET int    == from_bytes(SubSeq(data.s, 1, IF Len(data.s) < 6 THEN Len(data.s) ELSE 6))
        n      == Len(cls.hints)
        dec(k) == Signal_decode(cls.hints[k].sig, int, 48)
        bad    == {k \in 1..n : dec(k).err # "none"}
        names  == {cls.hints[k].name : k \in 1..n}
        idx(nm) == CHOOSE k \in 1..n : cls.hints[k].name = nm
    IN  IF bad # {} THEN RaiseV(dec(CHOOSE k \in bad : \A j \in bad : k <= j).err)
        ELSE Ret(PyObj([nm \in names |-> dec(idx(nm)).val]))

\* CANDevice.send_msg(msg): the frame bus.send is handed, or the exception
send_msg(self, msg) ==
    LET w == to_wrapper(msg, self.dev_id, Some(self.device_type))
    IN  IF w.err # "none" THEN RaiseV(w.err) ELSE to_can(w)

\* the request fetch_setting sends:
\* cananddevice.msg.SettingCommand(FETCH_SETTING_VALUE, setting_id)
fetch_request(stg) ==
    [cls |-> SettingCommand,
     f |-> [control_flag |-> PyInt(FETCH_SETTING_VALUE), setting_index |-> PyInt(stg.meta.idx)]]

\* msg_filter = lambda x: x.address == setting_id
msg_filter(x, setting_id) == x.f.address.t = "int" /\ x.f.address.i = setting_id

\* what recv_msg does with a frame _get_msg_by_id returned: "return" with
\* the value fetch_setting then returns or raises, or "continue"
recv_msg_on(stg, resp) ==
    LET data == from_wrapper(stg.meta.report_setting, from_can(resp))
    IN  IF data.err # "none" THEN [do |-> "return", result |-> RaiseV(data.err)]
        ELSE IF msg_filter(data.val, stg.meta.idx)
        THEN [do |-> "return", result |-> BaseSetting_decode(stg, data.val.f.value)]
        ELSE [do |-> "continue", result |-> PendingV]

\* ------------------------------------------------------------------------
\* Inputs drawn for a fetch: a Canandmag on the bus, the setting asked
\* for, and the frames that arrive.  The frames differ in device type, api
\* index, device id, address byte and value, and two of them are too short
\* to carry a value.
\* ------------------------------------------------------------------------
FetchDevices == [device_type : {7}, dev_id : {0, 3}]
FetchSettings == {CanId, Name0, StatusFramePeriod}
BusArbIds ==
    {FrameArbId(7, REDUX_CAN_VENDOR_ID, 4, id) : id \in {0, 3}}
    \cup {FrameArbId(7, REDUX_CAN_VENDOR_ID, 3, 0), FrameArbId(6, REDUX_CAN_VENDOR_ID, 4, 0)}
BusPayloads ==
    {<<0, 5, 0, 0, 0, 0, 0, 1>>, <<4, 5, 0, 0, 0, 0, 0, 1>>, <<4, 9, 0, 0, 0, 0, 0, 1>>,
     <<>>, <<4>>}
BusFrames == {CanMessage(id, data) : id \in BusArbIds, data \in BusPayloads}
BusArrivals == UNION {[1..n -> BusFrames] : n \in 0..MaxBusLen}

\* device.fetch_setting(fetching) is about to be called
InitFetch ==
    /\ call = "fetch_setting"
    /\ device \in FetchDevices
    /\ fetching \in FetchSettings
    /\ bus \in BusArrivals
    /\ pc = "fetch_setting" /\ sent = <<>> /\ consumed = <<>> /\ waits = 0
    /\ fetched = PendingV
    /\ sig = NoSignal /\ value = PyNone /\ max_idx = 0
    /\ encoded = Pending /\ decoded = PendingV /\ received = PendingM
    /\ message = NoMessage /\ dev_id = 0 /\ device_type = None /\ wrapper = PendingW
    /\ api_index = 0 /\ address = -1
    /\ IdleDevice /\ IdleParser

\* fetch_setting up to the end of send_msg: the request goes out with
\* bus.send, or to_wrapper / to_can raises
FetchSend ==
    /\ call = "fetch_setting" /\ pc = "fetch_setting"
    /\ LET frame == send_msg(device, fetch_request(fetching))
       IN  IF frame.err # "none"
           THEN /\ fetched' = frame /\ pc' = "done" /\ sent' = sent
           ELSE /\ sent' = Append(sent, frame.val) /\ pc' = "recv_msg" /\ fetched' = fetched
    /\ UNCHANGED <<fetching, bus, consumed, waits>>
    /\ UNCHANGED <<call, sig, value, encoded, max_idx, decoded, message, dev_id, device_type,
                   wrapper, received, device, api_index, address, deviceVars, parserVars>>

\* recv_msg: "while (time.monotonic() - start_time) < timeout" holds and
\* recv_wrapper calls _get_msg_by_id
RecvMsgLoop ==
    /\ call = "fetch_setting" /\ pc = "recv_msg"
    /\ pc' = "_get_msg_by_id"
    /\ UNCHANGED <<fetching, bus, sent, consumed, waits, fetched>>
    /\ UNCHANGED <<call, sig, value, encoded, max_idx, decoded, message, dev_id, device_type,
                   wrapper, received, device, api_index, address, deviceVars, parserVars>>

\* recv_msg: the timeout has passed at the loop test, "return None"
RecvMsgTimeout ==
    /\ call = "fetch_setting" /\ pc = "recv_msg"
    /\ fetched' = Ret(PyNone) /\ pc' = "done"
    /\ UNCHANGED <<fetching, bus, sent, consumed, waits>>
    /\ UNCHANGED <<call, sig, value, encoded, max_idx, decoded, message, dev_id, device_type,
                   wrapper, received, device, api_index, address, deviceVars, parserVars>>

\* _get_msg_by_id: the timeout has passed at the loop test; it returns None,
\* and so do recv_wrapper, recv_msg and fetch_setting
GetMsgTimeout ==
    /\ call = "fetch_setting" /\ pc = "_get_msg_by_id"
    /\ fetched' = Ret(PyNone) /\ pc' = "done"
    /\ UNCHANGED <<fetching, bus, sent, consumed, waits>>
    /\ UNCHANGED <<call, sig, value, encoded, max_idx, decoded, message, dev_id, device_type,
                   wrapper, received, device, api_index, address, deviceVars, parserVars>>

\* _get_msg_by_id: bus.recv(recv_timeout) returns None, "continue"
BusRecvNone ==
    /\ call = "fetch_setting" /\ pc = "_get_msg_by_id"
    /\ waits < MaxWaits
    /\ waits' = waits + 1
    /\ UNCHANGED <<fetching, pc, bus, sent, consumed, fetched>>
    /\ UNCHANGED <<call, sig, value, encoded, max_idx, decoded, message, dev_id, device_type,
                   wrapper, received, device, api_index, address, deviceVars, parserVars>>

\* _get_msg_by_id: bus.recv(recv_timeout) returns the next frame.  Another
\* arbitration id: "continue".  Else the frame goes back to recv_msg, which
\* returns through fetch_setting or goes round its loop.
BusRecvFrame ==
    /\ call = "fetch_setting" /\ pc = "_get_msg_by_id"
    /\ bus # <<>>
    /\ LET resp == Head(bus)
           msg_id == addr(device, fetching.meta.report_setting.meta.id)
           act == recv_msg_on(fetching, resp)
       IN  /\ bus' = Tail(bus)
           /\ consumed' = Append(consumed, resp)
           /\ IF resp.arbitration_id # msg_id
              THEN UNCHANGED <<pc, fetched>>
              ELSE IF act.do = "return"
              THEN fetched' = act.result /\ pc' = "done"
              ELSE pc' = "recv_msg" /\ fetched' = fetched
    /\ UNCHANGED <<fetching, sent, waits>>
    /\ UNCHANGED <<call, sig, value, encoded, max_idx, decoded, message, dev_id, device_type,
                   wrapper, received, device, api_index, address, deviceVars, parserVars>>

NextFetch ==
    \/ FetchSend \/ RecvMsgLoop \/ RecvMsgTimeout \/ GetMsgTimeout \/ BusRecvNone
    \/ BusRecvFrame

SpecFetch == InitFetch /\ [][NextFetch]_vars

\* ------------------------------------------------------------------------
\* The fetch sequence
\* ------------------------------------------------------------------------
\* the frame that asks for the setting: SettingCommand(FETCH_SETTING_VALUE,
\* setting index) addressed to the device, eight bytes long
RequestFrame ==
    CanMessage(FrameArbId(device.device_type, REDUX_CAN_VENDOR_ID, SettingCommand.meta.id, device.dev_id),
               <<FETCH_SETTING_VALUE, fetching.meta.idx, 0, 0, 0, 0, 0, 0>>)
\* a frame that reports the setting asked for: its arbitration id is
\* addr(ReportSetting id) and its address byte is the setting index
Reports(frame) ==
    /\ frame.arbitration_id = addr(device, fetching.meta.report_setting.meta.id)
    /\ frame.dlc >= 1 /\ frame.data[1] = fetching.meta.idx
\* the value such a frame carries in its bytes 1..6, decoded by the setting
ReportedValue(frame) ==
    BaseSetting_decode(fetching, PyBytes([k \in 1..6 |-> IF k + 1 <= frame.dlc THEN frame.data[k + 1] ELSE 0]))
\* the request is the one frame sent, and it is out before any frame is read
SentBeforeRead ==
    /\ Len(sent) <= 1
    /\ (consumed # <<>> \/ pc \in {"recv_msg", "_get_msg_by_id"}) => sent = <<RequestFrame>>
\* every frame read so far was discarded, except a last one that reports the
\* setting, whose value is what the call returned
FirstReportReturned ==
    \A k \in 1..Len(consumed) :
        IF Reports(consumed[k])
        THEN k = Len(consumed) /\ pc = "done" /\ fetched = ReportedValue(consumed[k])
        ELSE k = Len(consumed) => pc # "done" \/ fetched = Ret(PyNone)
\* a call that ends ends with None or with the value of the report read last
NoneOrReport ==
    (pc = "done" /\ sent # <<>>) =>
        \/ fetched = Ret(PyNone)
        \/ /\ consumed # <<>> /\ Reports(consumed[Len(consumed)])
           /\ fetched = ReportedValue(consumed[Len(consumed)])
\* without a frame from the bus the call returns None
NoFrameNoValue ==
    (pc = "done" /\ sent # <<>> /\ consumed = <<>>) => fetched = Ret(PyNone)

\* C28: fetch_setting sends exactly one SettingCommand(FETCH_SETTING_VALUE,
\* setting index) frame before it reads any frame, then reads frames in
\* arrival order, discards every frame whose arbitration id is not
\* addr(ReportSetting id) or whose address is not the setting index, and
\* returns the decoded value of the first frame that matches both; it returns
\* None when no frame arrives in time, and never a value from a frame of
\* another device id or setting index.
C28_FetchSequence ==
    call = "fetch_setting" =>
        SentBeforeRead /\ FirstReportReturned /\ NoneOrReport /\ NoFrameNoValue
====
